---------------------------- MODULE Spec2Model ----------------------------
(***************************************************************************)
(* RemoteAssistant: a Telegram front end that relays the texts of one      *)
(* allow-listed user to the Claude Code CLI and keeps a bounded            *)
(* conversation history per user.                                          *)
(*                                                                         *)
(* Modelled sources                                                        *)
(*   src/unnamed/part_001 (lines 89-262)  SessionManager                   *)
(*   src/unnamed/part_000                 ClaudeExecutor, handle variant   *)
(*                                        (--session-id / --resume) and    *)
(*                                        its execCommand helper           *)
(*   src/src/claude-executor.ts           ClaudeExecutor, replay variant   *)
(*                                        (history preamble)               *)
(*   src/src/telegram-bot.ts              RemoteAssistantBot handlers      *)
(*                                                                         *)
(* Texts are sequences of tokens.  A token is one character, except that   *)
(* a command word such as "/clear" is a single token.                      *)
(*                                                                         *)
(* A handler is split at its real suspension points (an awaited I/O        *)
(* operation: a network call, a subprocess, a file write or unlink); the   *)
(* code between two suspension points runs as one step, as it does on the  *)
(* single JavaScript thread.                                               *)
(***************************************************************************)
EXTENDS Integers, Sequences, FiniteSets, TLC

\* ------------------------------------------------------------------ bounds
\* Largest maxMessagesPerSession the constructor is given.
MaxMessagesCap == 3
\* Number of SessionManager calls a direct caller makes (SpecManager).
MaxCalls == 5
\* Number of inbound updates the transport delivers (Spec).
MaxTurns == 3
\* Number of handlers in flight at once (Spec).
MaxInFlight == 2
\* Number of file writes that fail (Spec).
MaxWriteFailures == 1
\* Number of turns handed to the core directly (SpecCore).
MaxCoreTurns == 2

\* --------------------------------------------------------------- constants
\* executeQuery asks for the context of the last 5 messages.
ContextLastN == 5

AllowedUserId == "100"
StrangerId == "200"
UserIds == {AllowedUserId, StrangerId}
Roles == {"user", "assistant"}

\* The inbound texts: a query holding a shell metacharacter, and the command.
QueryText == <<"a", "$">>
ClearText == <<"/clear">>
InboundTexts == {QueryText, ClearText}

\* What a subprocess does: it exits with a code after writing to its pipes,
\* or it is still running when the timer fires, or it cannot be spawned.
SomeStdout == <<"o", " ">>
SomeStderr == <<"e">>
ExitOutcomes ==
    {[code |-> 0, stdout |-> SomeStdout, stderr |-> <<>>],
     [code |-> 0, stdout |-> <<>>, stderr |-> <<>>],
     [code |-> 1, stdout |-> <<>>, stderr |-> SomeStderr],
     [code |-> 1, stdout |-> <<>>, stderr |-> <<>>]}
PartialStdouts == {<<>>, SomeStdout}

VARIABLES
    executor,              \* which ClaudeExecutor the build holds: "resume" | "replay"
    maxMessagesPerSession, \* SessionManager.maxMessagesPerSession
    sessions,              \* SessionManager.sessions: Map userId -> Session
    disk,                  \* sessionDir: file <userId>.json -> parsed record
    userSessionIds,        \* ClaudeExecutor.userSessionIds: Map userId -> handle
    uuids,                 \* handles crypto.randomUUID() has produced so far
    now,                   \* Date.now()
    lastUpdate,            \* the update delivered last, and its number
    tasks,                 \* the handlers in flight, one per slot
    writeFailures,         \* file writes that have failed so far
    pushed,                \* history variable: per user, the messages pushed onto
                           \* the registered session since it was created
    lastCall               \* history variable: the last direct SessionManager call

vars == <<executor, maxMessagesPerSession, sessions, disk, userSessionIds, uuids,
          now, lastUpdate, tasks, writeFailures, pushed, lastCall>>

\* ------------------------------------------------------------ JS helpers
Min(a, b) == IF a < b THEN a ELSE b
Max(a, b) == IF a > b THEN a ELSE b

\* Map.delete(key)
MapDelete(m, k) == [x \in (DOMAIN m) \ {k} |-> m[x]]
\* Map.set(key, value)
MapSet(m, k, v) == [x \in (DOMAIN m) \cup {k} |-> IF x = k THEN v ELSE m[x]]

\* The mutant of SliceLast: keeps the oldest n entries.
SliceFirst(s, n) == SubSeq(s, 1, Min(n, Len(s)))

\* Array.prototype.slice(-n) for n >= 0: slice(-0) is slice(0), the whole array.
SliceLast(s, n) ==
    IF n = 0 THEN s
    ELSE SubSeq(s, Max(Len(s) - n, 0) + 1, Len(s))

\* ------------------------------------------------------- SessionManager
\* getSession, the creation branch: the object literal.
NewSession(userId, ts) ==
    [userId |-> userId, messages |-> <<>>, createdAt |-> ts, lastActivityAt |-> ts]

\* addMessage between its two awaits: push, truncate, touch lastActivityAt.
PushMessage(session, role, content, ts, max) ==
    LET grown == Append(session.messages,
                        [role |-> role, content |-> content, timestamp |-> ts])
    IN [session EXCEPT
          !.messages = IF Len(grown) > max THEN SliceLast(grown, max) ELSE grown,
          !.lastActivityAt = ts]

\* A mutant of HistoryOf: lastN is ignored.
HistoryOfAll(session, lastN) == session.messages

\* getHistory after getSession: lastN undefined is modelled as -1.
HistoryOf(session, lastN) ==
    IF lastN # -1 /\ lastN # 0 THEN SliceLast(session.messages, lastN)
    ELSE session.messages

\* ------------------------------------------------------- durable records
\* JSON.stringify(session, null, 2): the document lists the properties in
\* insertion order, each as a <<key, value>> pair.
StringifyMessage(m) ==
    << <<"role", m.role>>, <<"content", m.content>>, <<"timestamp", m.timestamp>> >>

StringifySession(s) ==
    << <<"userId", s.userId>>,
       <<"messages", [i \in 1..Len(s.messages) |-> StringifyMessage(s.messages[i])]>>,
       <<"createdAt", s.createdAt>>,
       <<"lastActivityAt", s.lastActivityAt>> >>

\* Property lookup in a parsed document.
Field(doc, key) == doc[CHOOSE i \in 1..Len(doc) : doc[i][1] = key][2]

\* The mutant of ParseMessage: the timestamp is not read back.
ParseMessageNoTimestamp(doc) ==
    [role |-> Field(doc, "role"), content |-> Field(doc, "content"), timestamp |-> 0]

ParseMessage(doc) ==
    [role |-> Field(doc, "role"), content |-> Field(doc, "content"),
     timestamp |-> Field(doc, "timestamp")]

\* JSON.parse(content) read as a Session in loadSessions.
ParseSession(doc) ==
    LET ms == Field(doc, "messages")
    IN [userId |-> Field(doc, "userId"),
        messages |-> [i \in 1..Len(ms) |-> ParseMessage(ms[i])],
        createdAt |-> Field(doc, "createdAt"),
        lastActivityAt |-> Field(doc, "lastActivityAt")]

\* ------------------------------------------------------------- contexts
RoleLabel(role) == IF role = "user" THEN "User" ELSE "Assistant"

\* history.map(msg => `${role}: ${msg.content}`)
RenderMessage(m) == <<RoleLabel(m.role), ":", " ">> \o m.content

\* Array.prototype.join('\n\n')
RECURSIVE JoinBlank(_)
JoinBlank(parts) ==
    IF parts = <<>> THEN <<>>
    ELSE IF Len(parts) = 1 THEN parts[1]
    ELSE parts[1] \o <<"\n", "\n">> \o JoinBlank(Tail(parts))

\* getConversationContext after getHistory.
ContextOf(history) ==
    IF Len(history) = 0 THEN <<>>
    ELSE <<"Previous conversation:", "\n">>
         \o JoinBlank([i \in 1..Len(history) |-> RenderMessage(history[i])])
         \o <<"\n", "\n", "Current query:">>

\* ------------------------------------------------------------- escaping
\* The three characters escapeQuery escapes; the backtick is written BQ.
DoubleQuote == "\""
Backtick == "BQ"
Dollar == "$"

\* A mutant of ReplaceAll: replace without the g flag, the first match only.
ReplaceFirst(text, c) ==
    IF \E i \in 1..Len(text) : text[i] = c
    THEN LET i == CHOOSE k \in 1..Len(text) :
                      text[k] = c /\ \A j \in 1..(k - 1) : text[j] # c
         IN SubSeq(text, 1, i - 1) \o <<"\\", c>> \o SubSeq(text, i + 1, Len(text))
    ELSE text

\* String.prototype.replace(/c/g, '\\c')
RECURSIVE ReplaceAll(_, _)
ReplaceAll(text, c) ==
    IF text = <<>> THEN <<>>
    ELSE (IF Head(text) = c THEN <<"\\", c>> ELSE <<Head(text)>>)
         \o ReplaceAll(Tail(text), c)

escapeQuery(query) ==
    ReplaceAll(ReplaceAll(ReplaceAll(query, DoubleQuote), Backtick), Dollar)

\* String.prototype.trim(): the blank token is " ".
RECURSIVE TrimStart(_)
TrimStart(s) == IF s # <<>> /\ Head(s) = " " THEN TrimStart(Tail(s)) ELSE s
RECURSIVE TrimEnd(_)
TrimEnd(s) ==
    IF s # <<>> /\ s[Len(s)] = " " THEN TrimEnd(SubSeq(s, 1, Len(s) - 1)) ELSE s
Trim(s) == TrimEnd(TrimStart(s))

\* a || b on strings: the empty string is falsy.
OrElse(a, b) == IF a # <<>> THEN a ELSE b

\* ---------------------------------------------------------------- tasks
\* A handler in flight occupies a slot from its first suspension point to its
\* last.
Slots == 1..MaxInFlight

NoCommand == [mode |-> "none", handle |-> 0, prompt |-> <<>>]

\* code -1 is JavaScript's null: the child has not exited, or a signal ended it.
NoProc ==
    [stdout |-> <<>>, stderr |-> <<>>, settled |-> "none", error |-> "",
     errStdout |-> <<>>, timer |-> FALSE, killed |-> FALSE, closed |-> FALSE,
     timedOut |-> FALSE, code |-> -1]

NoResult == [state |-> "none", success |-> FALSE, output |-> <<>>, error |-> ""]

\* appended is a history field: the pushes this turn has made, each with
\* whether it went to the session registered for the user (attached).
NoTask ==
    [pc |-> "none", handler |-> "none", turn |-> 0, userId |-> "", query |-> <<>>,
     command |-> NoCommand, proc |-> NoProc, output |-> <<>>, role |-> "user",
     snapshot |-> <<>>, detached |-> FALSE, result |-> NoResult,
     appended |-> <<>>]

TimeoutMessage == "Command timed out after 300000ms"
ExitMessage == "Command failed with exit code"
ExecFailedMessage == "Command failed"
SpawnMessage == "spawn ENOENT"
WriteMessage == "ENOSPC: no space left on device, write"
UnknownMessage == "Unknown error occurred"
NoOutputPlaceholder == <<"Command executed successfully (no output)">>

\* ------------------------------------------------------- RemoteAssistantBot
\* The mutant of isAuthorized: every sender passes.
isAuthorizedAnyone(sender) == TRUE

\* isAuthorized: msg.from?.id !== this.allowedUserId
isAuthorized(sender) == sender = AllowedUserId

\* msg.text?.startsWith('/')
StartsWithSlash(text) == text # <<>> /\ text[1] \in {"/clear"}

\* bot.onText(/\/clear/, ...): the expression is not anchored.
MatchesClear(text) == \E i \in 1..Len(text) : text[i] = "/clear"

\* ------------------------------------------------------------ subprocess
\* The mutant of Settle: the last call wins.
SettleLast(p, how, error, errStdout) ==
    [p EXCEPT !.settled = how, !.error = error, !.errStdout = errStdout]

\* A promise settles once: resolve and reject on a settled promise do nothing.
Settle(p, how, error, errStdout) ==
    IF p.settled = "pending"
    THEN [p EXCEPT !.settled = how, !.error = error, !.errStdout = errStdout]
    ELSE p

\* A mutant of SpawnProc: no timeout is passed, no timer is set.
SpawnProcNoTimer == [NoProc EXCEPT !.settled = "pending"]

\* spawn, with the timer that execCommand and exec set for options.timeout.
SpawnProc == [NoProc EXCEPT !.settled = "pending", !.timer = TRUE]

\* child.stdout.on('data') and child.stderr.on('data')
OnData(p, stdout, stderr) ==
    [p EXCEPT !.stdout = @ \o stdout, !.stderr = @ \o stderr]

\* execCommand, the setTimeout callback: child.kill(), reject(new Error(...)).
ExecCommandOnTimeout(p) ==
    Settle([p EXCEPT !.killed = TRUE, !.timer = FALSE, !.timedOut = TRUE],
           "rejected", TimeoutMessage, <<>>)

\* execCommand, child.on('error'): clearTimeout, reject(error).
ExecCommandOnError(p) ==
    Settle([p EXCEPT !.timer = FALSE, !.closed = TRUE], "rejected", SpawnMessage, <<>>)

\* execCommand, child.on('close').
ExecCommandOnClose(p, code) ==
    LET q == [p EXCEPT !.timer = FALSE, !.closed = TRUE, !.code = code]
    IN IF code = 0 \/ p.stdout # <<>> \/ p.stderr # <<>>
       THEN Settle(q, "resolved", "", <<>>)
       ELSE Settle(q, "rejected", ExitMessage, p.stdout)

\* promisify(exec) with a timeout: the child is killed when the timer fires
\* and the promise settles when the child has closed; the error carries stdout.
ExecOnTimeout(p) == [p EXCEPT !.killed = TRUE, !.timer = FALSE, !.timedOut = TRUE]

ExecOnError(p) ==
    Settle([p EXCEPT !.timer = FALSE, !.closed = TRUE], "rejected", SpawnMessage, p.stdout)

ExecOnClose(p, code) ==
    LET q == [p EXCEPT !.timer = FALSE, !.closed = TRUE, !.code = code]
    IN IF code = 0 /\ ~p.killed
       THEN Settle(q, "resolved", "", <<>>)
       ELSE Settle(q, "rejected", ExecFailedMessage, p.stdout)

\* --------------------------------------------------------- ClaudeExecutor
\* A mutant of ResumePrefix: the generated handle is stored only after the
\* invocation, so a call that starts meanwhile finds none.
ResumePrefixStoredLate(ids, made, userId, query) ==
    IF userId \in DOMAIN ids /\ ids[userId] # made
    THEN [command |-> [mode |-> "resume", handle |-> ids[userId],
                       prompt |-> escapeQuery(query)],
          userSessionIds |-> ids, uuids |-> made]
    ELSE [command |-> [mode |-> "session-id", handle |-> made + 1,
                       prompt |-> escapeQuery(query)],
          userSessionIds |-> MapSet(ids, userId, made + 1), uuids |-> made + 1]

\* The mutant of ResumePrefix: a handle is generated for every query.
ResumePrefixAlwaysNew(ids, made, userId, query) ==
    [command |-> [mode |-> "session-id", handle |-> made + 1,
                  prompt |-> escapeQuery(query)],
     userSessionIds |-> MapSet(ids, userId, made + 1), uuids |-> made + 1]

\* executeQuery of the handle variant up to the spawn: look the handle up,
\* generate and store one when there is none, build the command line.
\* crypto.randomUUID() is the next unused number.
ResumePrefix(ids, made, userId, query) ==
    IF userId \in DOMAIN ids
    THEN [command |-> [mode |-> "resume", handle |-> ids[userId],
                       prompt |-> escapeQuery(query)],
          userSessionIds |-> ids, uuids |-> made]
    ELSE [command |-> [mode |-> "session-id", handle |-> made + 1,
                       prompt |-> escapeQuery(query)],
          userSessionIds |-> MapSet(ids, userId, made + 1), uuids |-> made + 1]

\* executeQuery of the replay variant: the context, a newline, the query.
FullQuery(context, query) ==
    IF context # <<>> THEN context \o <<"\n">> \o query ELSE query

ReplayCommand(context, query) ==
    [mode |-> "print-json", handle |-> 0, prompt |-> escapeQuery(FullQuery(context, query))]

\* JSON.parse(stdout) succeeds on "{" response "}", an object whose response
\* property is the text between the braces; formatJsonOutput returns it, or
\* the stringified object when the property is empty.
IsJsonObject(s) == Len(s) >= 2 /\ s[1] = "{" /\ s[Len(s)] = "}"
formatJsonOutput(s) ==
    LET response == SubSeq(s, 2, Len(s) - 1)
    IN IF response # <<>> THEN response ELSE s

\* The output of a resolved invocation.
ResumeOutput(p) == OrElse(Trim(p.stdout), Trim(p.stderr))
ReplayOutput(p) == IF IsJsonObject(p.stdout) THEN formatJsonOutput(p.stdout) ELSE p.stdout

\* return { success: true, output: output || stderr || '...' }
SuccessResult(output, stderr) ==
    [state |-> "returned", success |-> TRUE,
     output |-> OrElse(OrElse(output, stderr), NoOutputPlaceholder), error |-> ""]

\* The mutant of FailureResult: the error is thrown on to the caller.
FailureResultThrown(errStdout, message) ==
    [state |-> "thrown", success |-> FALSE, output |-> <<>>, error |-> message]

\* catch (error): { success: false, output: error.stdout || '', error: error.message || '...' }
FailureResult(errStdout, message) ==
    [state |-> "returned", success |-> FALSE, output |-> errStdout,
     error |-> IF message # "" THEN message ELSE UnknownMessage]


\* ------------------------------------------ addMessage inside a handler
\* Each operator maps (sessions, pushed, task) to their values at the next
\* suspension point of the handler.
\* The mutant of Content: the escaped query is recorded.
ContentEscaped(tk) == IF tk.role = "user" THEN escapeQuery(tk.query) ELSE tk.output

\* The content executeQuery hands to addMessage: the query as it was
\* received, then the output.
Content(tk) == IF tk.role = "user" THEN tk.query ELSE tk.output

Pushed(tk, attached) ==
    Append(tk.appended, [role |-> tk.role, content |-> Content(tk), attached |-> attached])

\* addMessage with the session in hand: push, truncate, touch, and the
\* synchronous part of saveSession (the record is stringified before the write).
PushAndSave(ss, ps, tk) ==
    LET u == tk.userId
        s2 == PushMessage(ss[u], tk.role, Content(tk), now, maxMessagesPerSession)
        msg == [role |-> tk.role, content |-> Content(tk), timestamp |-> now]
    IN [sessions |-> MapSet(ss, u, s2),
        pushed |-> [ps EXCEPT ![u] = Append(@, msg)],
        task |-> [tk EXCEPT !.pc = "save", !.snapshot = StringifySession(s2),
                            !.appended = Pushed(tk, TRUE)]]

\* addMessage up to its first suspension: getSession returns the registered
\* session, or registers a new one and writes it.
StartAddMessage(ss, ps, tk, role) ==
    LET u == tk.userId
        tk1 == [tk EXCEPT !.role = role]
    IN IF u \in DOMAIN ss
       THEN PushAndSave(ss, ps, tk1)
       ELSE [sessions |-> MapSet(ss, u, NewSession(u, now)),
             pushed |-> ps,
             task |-> [tk1 EXCEPT !.pc = "create", !.detached = FALSE,
                                  !.snapshot = StringifySession(NewSession(u, now))]]

\* A mutant of AfterAddMessage: the result follows the user's message, the
\* assistant's message is not recorded.
AfterAddMessageUserOnly(ss, ps, tk) ==
    [sessions |-> ss, pushed |-> ps,
     task |-> [tk EXCEPT !.pc = "reply",
                         !.result = SuccessResult(tk.output, tk.proc.stderr)]]

\* executeQuery after addMessage has returned: the assistant's message follows
\* the user's, the result follows the assistant's.
AfterAddMessage(ss, ps, tk) ==
    IF tk.role = "user"
    THEN StartAddMessage(ss, ps, tk, "assistant")
    ELSE [sessions |-> ss, pushed |-> ps,
          task |-> [tk EXCEPT !.pc = "reply",
                              !.result = SuccessResult(tk.output, tk.proc.stderr)]]

\* addMessage after getSession's write: the push goes to the object getSession
\* returned.  When a clear has removed that object from the map meanwhile
\* (detached), the push is lost with it, and saveSession writes whatever
\* session the map holds now, or nothing.
ResumeAfterCreate(ss, ps, tk) ==
    LET u == tk.userId
        tk2 == [tk EXCEPT !.appended = Pushed(tk, FALSE)]
    IN IF tk.detached
       THEN IF u \in DOMAIN ss
            THEN [sessions |-> ss, pushed |-> ps,
                  task |-> [tk2 EXCEPT !.pc = "save",
                                       !.snapshot = StringifySession(ss[u])]]
            ELSE AfterAddMessage(ss, ps, tk2)
       ELSE PushAndSave(ss, ps, tk)

\* A rejected write inside executeQuery's try block.
FailedWrite(tk) == [tk EXCEPT !.pc = "reply", !.result = FailureResult(<<>>, WriteMessage)]

\* executeQuery after the awaited invocation: on a rejection the catch block
\* returns the failure, otherwise the turn is recorded.
AfterExec(ss, ps, tk) ==
    LET out == IF executor = "resume" THEN ResumeOutput(tk.proc) ELSE ReplayOutput(tk.proc)
    IN IF tk.proc.settled = "rejected"
       THEN [sessions |-> ss, pushed |-> ps,
             task |-> [tk EXCEPT !.pc = "reply",
                                 !.result = FailureResult(tk.proc.errStdout, tk.proc.error)]]
       ELSE StartAddMessage(ss, ps, [tk EXCEPT !.output = out], "user")

\* A mutant of SessionsDelete: the whole map is emptied.
SessionsClearAll(ss, userId) == <<>>

\* The mutant of SessionsDelete: the session stays registered.
SessionsKeep(ss, userId) == ss

\* clearSession, its synchronous part: this.sessions.delete(userId).
SessionsDelete(ss, userId) == MapDelete(ss, userId)

\* A mutant of Unlink: the record stays in the directory.
UnlinkKeepsRecord(dk, userId) == dk

\* clearSession, its awaited part: fs.unlink in a try block, a missing file
\* is ignored.
Unlink(dk, userId) == MapDelete(dk, userId)

\* A handler suspended in getSession's write when clearSession runs keeps the
\* object that sessions.delete has removed from the map.
Detach(ts, userId) ==
    [t \in DOMAIN ts |->
        IF ts[t].userId = userId /\ ts[t].pc \in {"create", "createCtx"}
        THEN [ts[t] EXCEPT !.detached = TRUE] ELSE ts[t]]

\* ClaudeExecutor.clearSession of the handle variant: userSessionIds.delete.
ExecutorClearSession(ids, userId) == MapDelete(ids, userId)

\* ------------------------------------------------------------------ Init
\* The record of a direct call: the operation, its user, the clock when it
\* ran, the number of messages the user's session held when it was made, what
\* it returned, and the operation, user and size of the call before it.
NoCall ==
    [op |-> "none", userId |-> "", at |-> 0, size |-> 0, returned |-> <<>>,
     prevOp |-> "none", prevUserId |-> "", prevSize |-> 0]

\* A fresh installation: the session directory is empty, no update has come.
InitCommon ==
    /\ sessions = <<>>
    /\ disk = <<>>
    /\ userSessionIds = <<>>
    /\ uuids = 0
    /\ now = 0
    /\ lastUpdate = [n |-> 0, sender |-> "", text |-> <<>>]
    /\ tasks = [t \in Slots |-> NoTask]
    /\ writeFailures = 0
    /\ pushed = [u \in UserIds |-> <<>>]
    /\ lastCall = NoCall

Init ==
    /\ InitCommon
    /\ executor \in {"resume", "replay"}
    /\ maxMessagesPerSession = MaxMessagesCap


\* ------------------------------------------------------- the bot's steps
\* A history field of a /clear handler: the handle that was stored for the
\* user when the command arrived (0: none).
HandleAtClear(ids, userId) ==
    [mode |-> "clear", handle |-> IF userId \in DOMAIN ids THEN ids[userId] ELSE 0,
     prompt |-> <<>>]

Lowest(S) == CHOOSE x \in S : \A y \in S : x <= y

\* The transport delivers an update.  Every registered handler that matches
\* runs up to its first suspension point: the message handler up to
\* sendChatAction, the /clear handler up to clearSession's unlink.
Deliver(sender, text) ==
    /\ lastUpdate.n < MaxTurns
    /\ LET runsQuery == isAuthorized(sender) /\ ~StartsWithSlash(text) /\ text # <<>>
           runsClear == MatchesClear(text) /\ isAuthorized(sender)
           free == {t \in Slots : tasks[t].pc = "none"}
           need == (IF runsQuery THEN 1 ELSE 0) + (IF runsClear THEN 1 ELSE 0)
       IN /\ Cardinality(free) >= need
          /\ LET qslot == IF runsQuery THEN Lowest(free) ELSE 0
                 cslot == IF runsClear THEN Lowest(free \ {qslot}) ELSE 0
                 started == [NoTask EXCEPT !.turn = lastUpdate.n + 1, !.userId = sender,
                                           !.query = text]
                 ts1 == IF runsClear THEN Detach(tasks, sender) ELSE tasks
             IN tasks' = [t \in Slots |->
                     IF t = qslot
                     THEN [started EXCEPT !.pc = "notify", !.handler = "message"]
                     ELSE IF t = cslot
                     THEN [started EXCEPT !.pc = "unlink", !.handler = "clear",
                                          !.command = HandleAtClear(userSessionIds, sender)]
                     ELSE ts1[t]]
          /\ sessions' = IF runsClear THEN SessionsDelete(sessions, sender) ELSE sessions
          /\ pushed' = IF runsClear THEN [pushed EXCEPT ![sender] = <<>>] ELSE pushed
    /\ lastUpdate' = [n |-> lastUpdate.n + 1, sender |-> sender, text |-> text]
    /\ now' = now + 1
    /\ UNCHANGED <<executor, maxMessagesPerSession, disk, userSessionIds, uuids,
                   writeFailures, lastCall>>

\* The handle variant's executeQuery, called once the processing notice is sent.
ResumeBegin(t) ==
    /\ executor = "resume"
    /\ tasks[t].pc = "notify"
    /\ LET r == ResumePrefix(userSessionIds, uuids, tasks[t].userId, tasks[t].query)
       IN /\ userSessionIds' = r.userSessionIds
          /\ uuids' = r.uuids
          /\ tasks' = [tasks EXCEPT ![t] = [@ EXCEPT !.pc = "exec", !.command = r.command,
                                                     !.proc = SpawnProc]]
    /\ UNCHANGED <<executor, maxMessagesPerSession, sessions, disk, now, lastUpdate,
                   writeFailures, pushed, lastCall>>

\* The replay variant's executeQuery: getConversationContext(userId, 5) reads
\* the registered session, or registers a new one and waits for its write.
ReplayBegin(t) ==
    /\ executor = "replay"
    /\ tasks[t].pc = "notify"
    /\ LET u == tasks[t].userId
       IN IF u \in DOMAIN sessions
          THEN /\ tasks' = [tasks EXCEPT ![t] = [@ EXCEPT
                      !.pc = "exec",
                      !.command = ReplayCommand(
                          ContextOf(HistoryOf(sessions[u], ContextLastN)), tasks[t].query),
                      !.proc = SpawnProc]]
               /\ sessions' = sessions
          ELSE /\ sessions' = MapSet(sessions, u, NewSession(u, now))
               /\ tasks' = [tasks EXCEPT ![t] = [@ EXCEPT
                      !.pc = "createCtx", !.detached = FALSE,
                      !.snapshot = StringifySession(NewSession(u, now))]]
    /\ UNCHANGED <<executor, maxMessagesPerSession, disk, userSessionIds, uuids, now,
                   lastUpdate, writeFailures, pushed, lastCall>>

\* getSession's write inside getConversationContext completes; the history is
\* read from the object getSession returned.
ContextCreated(t, ok) ==
    /\ tasks[t].pc = "createCtx"
    /\ LET tk == tasks[t]
           u == tk.userId
           history == IF tk.detached THEN <<>> ELSE HistoryOf(sessions[u], ContextLastN)
       IN IF ok
          THEN /\ disk' = MapSet(disk, u, tk.snapshot)
               /\ writeFailures' = writeFailures
               /\ tasks' = [tasks EXCEPT ![t] = [@ EXCEPT
                      !.pc = "exec",
                      !.command = ReplayCommand(ContextOf(history), tk.query),
                      !.proc = SpawnProc]]
          ELSE /\ writeFailures < MaxWriteFailures
               /\ writeFailures' = writeFailures + 1
               /\ disk' = disk
               /\ tasks' = [tasks EXCEPT ![t] = FailedWrite(tk)]
    /\ UNCHANGED <<executor, maxMessagesPerSession, sessions, userSessionIds, uuids, now,
                   lastUpdate, pushed, lastCall>>

\* A handler step that touches only sessions, pushed and the task.
Resumed(t, r) ==
    /\ tasks' = [tasks EXCEPT ![t] = r.task]
    /\ sessions' = r.sessions
    /\ pushed' = r.pushed

\* The child writes to its pipes, exits and closes; executeQuery resumes.
ProcExit(t, o) ==
    /\ tasks[t].pc = "exec"
    /\ LET p1 == OnData(tasks[t].proc, o.stdout, o.stderr)
           p2 == IF executor = "resume" THEN ExecCommandOnClose(p1, o.code)
                 ELSE ExecOnClose(p1, o.code)
       IN Resumed(t, AfterExec(sessions, pushed, [tasks[t] EXCEPT !.proc = p2]))
    /\ UNCHANGED <<executor, maxMessagesPerSession, disk, userSessionIds, uuids, now,
                   lastUpdate, writeFailures, lastCall>>

\* The timer fires while the child is running; executeQuery resumes when the
\* promise is rejected: at once under execCommand, after the killed child has
\* closed under exec.
ProcTimeout(t, partial) ==
    /\ tasks[t].pc = "exec"
    /\ tasks[t].proc.timer
    /\ LET p1 == OnData(tasks[t].proc, partial, <<>>)
           p2 == IF executor = "resume" THEN ExecCommandOnTimeout(p1)
                 ELSE ExecOnClose(ExecOnTimeout(p1), -1)
       IN Resumed(t, AfterExec(sessions, pushed, [tasks[t] EXCEPT !.proc = p2]))
    /\ UNCHANGED <<executor, maxMessagesPerSession, disk, userSessionIds, uuids, now,
                   lastUpdate, writeFailures, lastCall>>

\* The child cannot be spawned; executeQuery resumes.
ProcError(t) ==
    /\ tasks[t].pc = "exec"
    /\ LET p2 == IF executor = "resume" THEN ExecCommandOnError(tasks[t].proc)
                 ELSE ExecOnError(tasks[t].proc)
       IN Resumed(t, AfterExec(sessions, pushed, [tasks[t] EXCEPT !.proc = p2]))
    /\ UNCHANGED <<executor, maxMessagesPerSession, disk, userSessionIds, uuids, now,
                   lastUpdate, writeFailures, lastCall>>

\* The child that execCommand killed on timeout closes, with whatever it had
\* written: the close handler runs on the promise that is already rejected.
LateClose(t) ==
    /\ executor = "resume"
    /\ tasks[t].proc.killed
    /\ ~tasks[t].proc.closed
    /\ tasks' = [tasks EXCEPT ![t].proc = ExecCommandOnClose(@, -1)]
    /\ UNCHANGED <<executor, maxMessagesPerSession, sessions, disk, userSessionIds, uuids,
                   now, lastUpdate, writeFailures, pushed, lastCall>>

\* A write issued by addMessage completes (fs.writeFile resolves or rejects)
\* and the handler runs on to its next suspension point.
WriteDone(t, ok) ==
    /\ tasks[t].pc \in {"create", "save"}
    /\ LET tk == tasks[t]
       IN IF ok
          THEN /\ disk' = MapSet(disk, tk.userId, tk.snapshot)
               /\ writeFailures' = writeFailures
               /\ Resumed(t, IF tk.pc = "create"
                             THEN ResumeAfterCreate(sessions, pushed, tk)
                             ELSE AfterAddMessage(sessions, pushed, tk))
          ELSE /\ writeFailures < MaxWriteFailures
               /\ writeFailures' = writeFailures + 1
               /\ tasks' = [tasks EXCEPT ![t] = FailedWrite(tk)]
               /\ UNCHANGED <<disk, sessions, pushed>>
    /\ UNCHANGED <<executor, maxMessagesPerSession, userSessionIds, uuids, now,
                   lastUpdate, lastCall>>

\* The message handler after executeQuery has returned: the processing notice
\* is deleted and the answer or the error is sent; the handler ends.
Replied(t) ==
    /\ tasks[t].pc = "reply"
    /\ tasks' = [tasks EXCEPT ![t] = NoTask]
    /\ UNCHANGED <<executor, maxMessagesPerSession, sessions, disk, userSessionIds, uuids,
                   now, lastUpdate, writeFailures, pushed, lastCall>>

\* The /clear handler after clearSession's unlink: executor.clearSession runs,
\* the confirmation is sent and the handler ends.  The replay variant has no
\* clearSession and no handles.
UnlinkDone(t) ==
    /\ tasks[t].pc = "unlink"
    /\ disk' = Unlink(disk, tasks[t].userId)
    /\ userSessionIds' = IF executor = "resume"
                         THEN ExecutorClearSession(userSessionIds, tasks[t].userId)
                         ELSE userSessionIds
    /\ tasks' = [tasks EXCEPT ![t] = NoTask]
    /\ UNCHANGED <<executor, maxMessagesPerSession, sessions, uuids, now, lastUpdate,
                   writeFailures, pushed, lastCall>>

Next ==
    \/ \E sender \in UserIds, text \in InboundTexts : Deliver(sender, text)
    \/ \E t \in Slots : ResumeBegin(t)
    \/ \E t \in Slots : ReplayBegin(t)
    \/ \E t \in Slots, ok \in BOOLEAN : ContextCreated(t, ok)
    \/ \E t \in Slots, o \in ExitOutcomes : ProcExit(t, o)
    \/ \E t \in Slots, partial \in PartialStdouts : ProcTimeout(t, partial)
    \/ \E t \in Slots : ProcError(t)
    \/ \E t \in Slots : LateClose(t)
    \/ \E t \in Slots, ok \in BOOLEAN : WriteDone(t, ok)
    \/ \E t \in Slots : Replied(t)
    \/ \E t \in Slots : UnlinkDone(t)

Spec == Init /\ [][Next]_vars

\* ------------------------------------------- SessionManager called directly
\* A caller that awaits every call before it makes the next one, on storage
\* that does not fail: each call runs from its entry to its return.
InitManager ==
    /\ InitCommon
    /\ executor = "replay"
    /\ maxMessagesPerSession \in 1..MaxMessagesCap

Called(op, userId, returned) ==
    [op |-> op, userId |-> userId, at |-> now,
     size |-> IF userId \in DOMAIN sessions THEN Len(sessions[userId].messages) ELSE 0,
     returned |-> returned,
     prevOp |-> lastCall.op, prevUserId |-> lastCall.userId, prevSize |-> lastCall.size]

\* A mutant of GetSessionResult: the new session is returned but neither
\* registered nor written.
GetSessionResultUnregistered(ss, dk, userId) ==
    [sessions |-> ss, disk |-> dk,
     session |-> IF userId \in DOMAIN ss THEN ss[userId] ELSE NewSession(userId, now)]

\* getSession as one call: the registered session, or a new one that is
\* registered and written.
GetSessionResult(ss, dk, userId) ==
    IF userId \in DOMAIN ss
    THEN [sessions |-> ss, disk |-> dk, session |-> ss[userId]]
    ELSE [sessions |-> MapSet(ss, userId, NewSession(userId, now)),
          disk |-> MapSet(dk, userId, StringifySession(NewSession(userId, now))),
          session |-> NewSession(userId, now)]

CallGetSession(userId) ==
    /\ now < MaxCalls
    /\ LET g == GetSessionResult(sessions, disk, userId)
       IN /\ sessions' = g.sessions
          /\ disk' = g.disk
          /\ lastCall' = Called("getSession", userId, g.session)
    /\ now' = now + 1
    /\ UNCHANGED <<executor, maxMessagesPerSession, userSessionIds, uuids, lastUpdate,
                   tasks, writeFailures, pushed>>

\* addMessage as one call: getSession, push, truncate, touch, saveSession.
CallAddMessage(userId, role, content) ==
    /\ now < MaxCalls
    /\ LET g == GetSessionResult(sessions, disk, userId)
           s2 == PushMessage(g.session, role, content, now, maxMessagesPerSession)
       IN /\ sessions' = MapSet(g.sessions, userId, s2)
          /\ disk' = MapSet(g.disk, userId, StringifySession(s2))
    /\ pushed' = [pushed EXCEPT ![userId] =
                      Append(@, [role |-> role, content |-> content, timestamp |-> now])]
    /\ lastCall' = Called("addMessage", userId, <<>>)
    /\ now' = now + 1
    /\ UNCHANGED <<executor, maxMessagesPerSession, userSessionIds, uuids, lastUpdate,
                   tasks, writeFailures>>

\* getHistory as one call.
CallGetHistory(userId, lastN) ==
    /\ now < MaxCalls
    /\ LET g == GetSessionResult(sessions, disk, userId)
       IN /\ sessions' = g.sessions
          /\ disk' = g.disk
          /\ lastCall' = Called("getHistory", userId, HistoryOf(g.session, lastN))
    /\ now' = now + 1
    /\ UNCHANGED <<executor, maxMessagesPerSession, userSessionIds, uuids, lastUpdate,
                   tasks, writeFailures, pushed>>

\* clearSession as one call: sessions.delete, then the unlink.
CallClearSession(userId) ==
    /\ now < MaxCalls
    /\ sessions' = SessionsDelete(sessions, userId)
    /\ disk' = Unlink(disk, userId)
    /\ pushed' = [pushed EXCEPT ![userId] = <<>>]
    /\ lastCall' = Called("clearSession", userId, <<>>)
    /\ now' = now + 1
    /\ UNCHANGED <<executor, maxMessagesPerSession, userSessionIds, uuids, lastUpdate,
                   tasks, writeFailures>>

\* lastN: undefined (-1), 0, and a count within the history.
LastNs == {-1, 0, 1}

NextManager ==
    \/ \E userId \in UserIds : CallGetSession(userId)
    \/ \E userId \in UserIds, role \in Roles : CallAddMessage(userId, role, QueryText)
    \/ \E userId \in UserIds, lastN \in LastNs : CallGetHistory(userId, lastN)
    \/ \E userId \in UserIds : CallClearSession(userId)

SpecManager == InitManager /\ [][NextManager]_vars

\* ===================================================================== C1
\* The most recent n entries of a sequence, oldest first.
MostRecent(s, n) ==
    LET k == Min(n, Len(s)) IN [i \in 1..k |-> s[Len(s) - k + i]]

\* C1: after every addMessage call, for every maxMessagesPerSession >= 1, a
\* session holds at most maxMessagesPerSession messages, and they are the
\* most recently appended ones since the last clear, in their original order.
BoundedSuffix ==
    \A u \in DOMAIN sessions :
        /\ Len(sessions[u].messages) <= maxMessagesPerSession
        /\ sessions[u].messages = MostRecent(pushed[u], maxMessagesPerSession)

\* Scenario A: max = 3, the fourth message has been appended; the first is gone.
BoundedSuffixWitness ==
    /\ maxMessagesPerSession = 3
    /\ lastCall.op = "addMessage"
    /\ lastCall.userId = AllowedUserId
    /\ Len(pushed[AllowedUserId]) = 4
    /\ Len(sessions[AllowedUserId].messages) = 3
    /\ sessions[AllowedUserId].messages[1] = pushed[AllowedUserId][2]
    /\ \A i \in 1..3 : sessions[AllowedUserId].messages[i] # pushed[AllowedUserId][1]

\* ===================================================================== C2
\* C2: every executeQuery that returns success = true has appended exactly
\* two messages, in this order: a user message whose content is the query as
\* it was received (not the escaped or context-prefixed prompt), then an
\* assistant message holding the output; in both executors.
TurnRecordedAtReturn ==
    \A t \in Slots :
        tasks[t].pc = "reply" /\ tasks[t].result.success =>
            /\ Len(tasks[t].appended) = 2
            /\ tasks[t].appended[1].role = "user"
            /\ tasks[t].appended[1].content = tasks[t].query
            /\ tasks[t].appended[2].role = "assistant"
            /\ tasks[t].appended[2].content = tasks[t].output
            /\ tasks[t].output # <<>> =>
                   tasks[t].result.output = tasks[t].appended[2].content

\* A push onto the registered session is the last message of the user's
\* history right after it.
PushLands ==
    \A t \in Slots :
        LET before == tasks[t].appended
            after == tasks'[t].appended
        IN Len(after) = Len(before) + 1 /\ after[Len(after)].attached =>
              LET u == tasks'[t].userId
              IN /\ u \in DOMAIN sessions'
                 /\ sessions'[u].messages # <<>>
                 /\ LET m == sessions'[u].messages[Len(sessions'[u].messages)]
                    IN /\ m.role = after[Len(after)].role
                       /\ m.content = after[Len(after)].content

FailureRecordsNothing ==
    \A t \in Slots :
        tasks[t].pc = "reply" /\ ~tasks[t].result.success => tasks[t].appended = <<>>

\* ===================================================================== C4
\* C4: every executeQuery whose subprocess exited with a non-zero exit code
\* returns success = false and records no turn, whatever the subprocess wrote.
NonZeroExitFails ==
    \A t \in Slots :
        tasks[t].proc.closed /\ tasks[t].proc.code \notin {0, -1} =>
            /\ tasks[t].pc = "reply"
            /\ ~tasks[t].result.success
            /\ tasks[t].appended = <<>>

\* ===================================================================== C5
\* C5: when the timeout expires before the subprocess has closed, executeQuery
\* returns success = false and appends nothing; under execCommand the error
\* names the timeout; the outcome is settled once: the close of the killed
\* subprocess, with or without output, changes neither the result nor the
\* history.
TimedOutFailed ==
    \A t \in Slots :
        tasks[t].proc.timedOut =>
            /\ tasks[t].pc = "reply"
            /\ tasks[t].proc.settled = "rejected"
            /\ ~tasks[t].result.success
            /\ tasks[t].appended = <<>>
            /\ executor = "resume" =>
                   /\ tasks[t].proc.error = TimeoutMessage
                   /\ tasks[t].result.error = TimeoutMessage

\* The step in which the timer fires, and the step in which the killed
\* subprocess closes, leave memory and storage as they were.
TimeoutStepsKeepHistory ==
    \A t \in Slots :
        tasks'[t].proc.timedOut /\ tasks'[t].proc # tasks[t].proc =>
            /\ sessions' = sessions
            /\ disk' = disk
            /\ tasks[t].proc.timedOut => tasks'[t].result = tasks[t].result

TimeoutFails == []TimedOutFailed /\ [][TimeoutStepsKeepHistory]_vars

\* execCommand's timer fired on a subprocess that had written output, and the
\* killed subprocess has closed since.
TimeoutFailsWitness ==
    \E t \in Slots :
        /\ executor = "resume"
        /\ tasks[t].proc.timedOut
        /\ tasks[t].proc.closed
        /\ tasks[t].proc.stdout # <<>>
        /\ tasks[t].pc = "reply"

\* ===================================================================== C6
\* C6: per user the handle executor is a two-state machine: with no stored
\* handle executeQuery issues --session-id with a handle never generated
\* before and stores it; with a stored handle it issues --resume with exactly
\* that handle and stores nothing; a stored handle changes only by being
\* removed in clearSession.
HandleStep ==
    /\ \A t \in Slots :
          executor = "resume" /\ tasks[t].pc = "notify" /\ tasks'[t].pc = "exec" =>
              LET u == tasks[t].userId
                  c == tasks'[t].command
              IN IF u \in DOMAIN userSessionIds
                 THEN /\ c.mode = "resume"
                      /\ c.handle = userSessionIds[u]
                      /\ userSessionIds' = userSessionIds
                      /\ uuids' = uuids
                 ELSE /\ c.mode = "session-id"
                      /\ c.handle > uuids
                      /\ uuids' = c.handle
                      /\ u \in DOMAIN userSessionIds'
                      /\ userSessionIds'[u] = c.handle
    /\ \A u \in UserIds :
          u \in DOMAIN userSessionIds
          /\ (u \notin DOMAIN userSessionIds' \/ userSessionIds'[u] # userSessionIds[u]) =>
              /\ u \notin DOMAIN userSessionIds'
              /\ \E t \in Slots : /\ tasks[t].handler = "clear"
                                   /\ tasks[t].userId = u
                                   /\ tasks[t].pc = "unlink"
                                   /\ tasks'[t].pc = "none"

HandleMachine == [][HandleStep]_vars

\* A second query of the user is running as --resume with the handle the
\* first one stored.
HandleMachineWitness ==
    \E t \in Slots :
        /\ tasks[t].pc = "exec"
        /\ tasks[t].command.mode = "resume"
        /\ tasks[t].userId \in DOMAIN userSessionIds
        /\ tasks[t].command.handle = userSessionIds[tasks[t].userId]
        /\ uuids = 1

\* ===================================================================== C7
\* C7: when ClaudeExecutor.clearSession(userId) returns, the user has no
\* stored handle and an empty history: the operation invalidates both.
ExecutorClearStep ==
    \A t \in Slots :
        executor = "resume" /\ tasks[t].pc = "unlink" /\ tasks'[t].pc = "none" =>
            LET u == tasks[t].userId
            IN /\ u \notin DOMAIN userSessionIds'
               /\ u \in DOMAIN sessions' => sessions'[u].messages = <<>>

ExecutorClearInvalidatesBoth == [][ExecutorClearStep]_vars

\* ===================================================================== C8
\* C8: after SessionManager.clearSession(userId) has completed, with no other
\* operation on the user in flight, neither the map nor the store holds the
\* session; the next getSession(userId) returns a session with no messages
\* and with createdAt and lastActivityAt taken at that call, registered in the
\* map, whose durable record holds no messages.
ClearThenFresh ==
    /\ lastCall.op = "clearSession" =>
          /\ lastCall.userId \notin DOMAIN sessions
          /\ lastCall.userId \notin DOMAIN disk
    /\ lastCall.op = "getSession" /\ lastCall.prevOp = "clearSession"
       /\ lastCall.prevUserId = lastCall.userId =>
          LET u == lastCall.userId
              s == lastCall.returned
          IN /\ s.messages = <<>>
             /\ s.createdAt = lastCall.at
             /\ s.lastActivityAt = lastCall.at
             /\ u \in DOMAIN sessions
             /\ sessions[u] = s
             /\ u \in DOMAIN disk
             /\ ParseSession(disk[u]).messages = <<>>
             /\ ParseSession(disk[u]).createdAt = lastCall.at

\* A session that held messages was cleared, and getSession was called next.
ClearThenFreshWitness ==
    /\ lastCall.op = "getSession"
    /\ lastCall.prevOp = "clearSession"
    /\ lastCall.prevUserId = lastCall.userId
    /\ lastCall.prevSize > 0

\* ===================================================================== C9
\* C9: clearing is atomic for the other handlers: a query that arrives and
\* starts its executeQuery while /clear is being processed for the same user,
\* after the history has been cleared, never resumes the handle stored before
\* the clear.
NoResumeDuringClear ==
    \A t, c \in Slots :
        /\ executor = "resume"
        /\ tasks[t].pc = "notify"
        /\ tasks'[t].pc = "exec"
        /\ tasks[c].pc = "unlink"
        /\ tasks[c].userId = tasks[t].userId
        /\ tasks[c].turn < tasks[t].turn
        /\ tasks[t].userId \notin DOMAIN sessions
        => ~ /\ tasks'[t].command.mode = "resume"
             /\ tasks'[t].command.handle = tasks[c].command.handle

ClearIsAtomic == [][NoResumeDuringClear]_vars

\* ==================================================================== C10
\* C10: an inbound message or command whose sender is not the allow-listed
\* user changes no state: no session is created, modified or cleared, no handle
\* is created or removed, no record is written or deleted, no handler and no
\* subprocess is started.
StrangerHasNothing ==
    /\ StrangerId \notin DOMAIN sessions
    /\ StrangerId \notin DOMAIN disk
    /\ StrangerId \notin DOMAIN userSessionIds
    /\ \A t \in Slots : tasks[t].userId # StrangerId

StrangerStep ==
    lastUpdate'.n # lastUpdate.n /\ lastUpdate'.sender # AllowedUserId =>
        /\ sessions' = sessions
        /\ disk' = disk
        /\ userSessionIds' = userSessionIds
        /\ uuids' = uuids
        /\ tasks' = tasks
        /\ pushed' = pushed

UnauthorizedChangesNothing == []StrangerHasNothing /\ [][StrangerStep]_vars

\* A stranger's /clear arrived while the allow-listed user had a recorded
\* history and a stored handle; both are still there.
UnauthorizedChangesNothingWitness ==
    /\ lastUpdate.sender = StrangerId
    /\ lastUpdate.text = ClearText
    /\ AllowedUserId \in DOMAIN sessions
    /\ sessions[AllowedUserId].messages # <<>>
    /\ AllowedUserId \in DOMAIN disk
    /\ \A t \in Slots : tasks[t].pc = "none"

\* ==================================================================== C11
\* No SessionManager operation is in progress: no handler is suspended in a
\* write or an unlink.
ManagerIdle ==
    \A t \in Slots : tasks[t].pc \notin {"create", "createCtx", "save", "unlink"}

\* C11: whenever no SessionManager operation is in progress and no write has
\* failed, a durable record exists for exactly the users that have a session
\* in memory, and each record's content equals that session, so that a new
\* SessionManager loading the directory holds the same sessions.
DurableMatchesMemory ==
    ManagerIdle /\ writeFailures = 0 =>
        /\ DOMAIN disk = DOMAIN sessions
        /\ \A u \in DOMAIN disk : ParseSession(disk[u]) = sessions[u]

\* ------------------------------------------------ restart over a directory
\* A file whose content JSON.parse rejects: an empty or truncated record.
CorruptRecord == <<>>

\* fs.readdir lists the files in an order the file system chooses.
Listings(dk) ==
    {o \in [1..Cardinality(DOMAIN dk) -> DOMAIN dk] :
        \A i, j \in DOMAIN o : i # j => o[i] # o[j]}

\* loadSessions: the for loop over the listing, inside one try block: a
\* record that JSON.parse rejects ends the loop in the catch clause.
RECURSIVE LoadSessions(_, _, _)
LoadSessions(dk, listing, ss) ==
    IF listing = <<>> THEN ss
    ELSE IF dk[Head(listing)] = CorruptRecord THEN ss
    ELSE LET session == ParseSession(dk[Head(listing)])
         IN LoadSessions(dk, Tail(listing), MapSet(ss, session.userId, session))

\* The process is restarted: a new SessionManager (an empty map) runs
\* initialize() over the same directory.
CallInitialize(listing) ==
    /\ now < MaxCalls
    /\ sessions' = LoadSessions(disk, listing, <<>>)
    /\ pushed' = [u \in UserIds |-> IF u \in DOMAIN sessions' THEN pushed[u] ELSE <<>>]
    /\ lastCall' = Called("initialize", "",
                          [held |-> sessions, directory |-> disk, listing |-> listing])
    /\ now' = now + 1
    /\ UNCHANGED <<executor, maxMessagesPerSession, disk, userSessionIds, uuids,
                   lastUpdate, tasks, writeFailures>>

\* A record is damaged on the medium while no call is running.
Damage(userId) ==
    /\ userId \in DOMAIN disk
    /\ disk[userId] # CorruptRecord
    /\ disk' = [disk EXCEPT ![userId] = CorruptRecord]
    /\ UNCHANGED <<executor, maxMessagesPerSession, sessions, userSessionIds, uuids, now,
                   lastUpdate, tasks, writeFailures, pushed, lastCall>>

\* The manager of the running bot: the bound it was constructed with.
InitRestart ==
    /\ InitCommon
    /\ executor = "replay"
    /\ maxMessagesPerSession = MaxMessagesCap

\* Awaited calls and restarts over an undamaged directory.
NextRestart ==
    \/ NextManager
    \/ \E listing \in Listings(disk) : CallInitialize(listing)

SpecRestart == InitRestart /\ [][NextRestart]_vars

\* Awaited calls and restarts over a directory whose records may be damaged.
NextDamaged ==
    \/ NextRestart
    \/ \E userId \in UserIds : Damage(userId)

SpecDamaged == InitRestart /\ [][NextDamaged]_vars

\* ==================================================================== C12
\* C12: a session that was saved and is then loaded by a restart is the same
\* session: the same userId, the same messages (role, content and timestamp,
\* in the same order), the same createdAt and lastActivityAt; the restarted
\* manager holds exactly the sessions the old one held.
RoundTrip ==
    lastCall.op = "initialize" =>
        LET held == lastCall.returned.held
        IN /\ DOMAIN sessions = DOMAIN held
           /\ \A u \in DOMAIN held :
                 /\ sessions[u].userId = held[u].userId
                 /\ sessions[u].messages = held[u].messages
                 /\ sessions[u].createdAt = held[u].createdAt
                 /\ sessions[u].lastActivityAt = held[u].lastActivityAt

\* A restart has loaded the sessions of two users, one of them truncated to
\* the bound, with messages of both roles and distinct timestamps.
RoundTripWitness ==
    /\ lastCall.op = "initialize"
    /\ DOMAIN sessions = UserIds
    /\ \E u \in UserIds :
          /\ Len(sessions[u].messages) >= 2
          /\ sessions[u].messages[1].role # sessions[u].messages[2].role
          /\ sessions[u].messages[1].timestamp # sessions[u].messages[2].timestamp
          /\ sessions[u].createdAt # sessions[u].lastActivityAt

\* ==================================================================== C13
\* C13: when one record of the directory fails to parse, only that record is
\* skipped: every other record, wherever the listing puts it, is loaded.
OnlyCorruptSkipped ==
    lastCall.op = "initialize" =>
        LET directory == lastCall.returned.directory
        IN \A f \in DOMAIN directory :
              directory[f] # CorruptRecord =>
                  /\ f \in DOMAIN sessions
                  /\ sessions[f] = ParseSession(directory[f])

\* ==================================================================== C14
\* C14: no SessionManager operation rejects to its caller because a write to
\* the store failed: no executeQuery ever catches the storage error from
\* getSession, addMessage or getConversationContext.
ManagerAbsorbsFailures ==
    \A t \in Slots : tasks[t].result.error # WriteMessage

\* ==================================================================== C15
\* C15: when the write fails during addMessage (in the creation write of its
\* getSession or in its own save), the appended message is nevertheless in the
\* in-memory history: the failed addMessage for the user message has made one
\* push, the failed addMessage for the assistant message the second.
WriteFailureKeepsMessage ==
    \A t \in Slots :
        /\ executor = "resume"
        /\ tasks[t].pc = "reply"
        /\ tasks[t].result.error = WriteMessage
        => Len(tasks[t].appended) = (IF tasks[t].role = "user" THEN 1 ELSE 2)

\* ==================================================================== C16
\* C16: a failed write is never surfaced to the chat turn: when the
\* subprocess has succeeded, executeQuery returns success = true with the
\* output and both messages of the turn have been pushed.
ResolvedMeansSuccess ==
    \A t \in Slots :
        tasks[t].pc = "reply" /\ tasks[t].proc.settled = "resolved" =>
            /\ tasks[t].result.success
            /\ Len(tasks[t].appended) = 2

\* ==================================================================== C17
\* C17: executeQuery never throws: whatever the subprocess and the writes do,
\* the handler receives a result object, whose error is present exactly when
\* success is false.
ResultAtReturn ==
    \A t \in Slots :
        tasks[t].pc = "reply" =>
            /\ tasks[t].result.state = "returned"
            /\ tasks[t].result.success \in BOOLEAN
            /\ (tasks[t].result.error # "") <=> ~tasks[t].result.success

\* A running executeQuery ends in no other way than by returning.
InsideExecuteQuery == {"exec", "createCtx", "create", "save"}

ReturnStep ==
    \A t \in Slots :
        tasks[t].pc \in InsideExecuteQuery =>
            tasks'[t].pc \in InsideExecuteQuery \cup {"reply"}

AlwaysReturns == []ResultAtReturn /\ [][ReturnStep]_vars

\* executeQuery has returned the failure of a write that followed a
\* successful subprocess.
AlwaysReturnsWitness ==
    \E t \in Slots :
        /\ tasks[t].pc = "reply"
        /\ tasks[t].proc.settled = "resolved"
        /\ ~tasks[t].result.success
        /\ tasks[t].result.error = WriteMessage

\* ==================================================================== C19
\* C19: a failed executeQuery leaves the continuity state as it was: a user
\* who had no handle when the call began does not keep the handle the failed
\* call generated.
FailureKeepsContinuity ==
    \A t \in Slots :
        /\ executor = "resume"
        /\ tasks[t].pc = "reply"
        /\ ~tasks[t].result.success
        /\ tasks[t].command.mode = "session-id"
        => ~ /\ tasks[t].userId \in DOMAIN userSessionIds
             /\ userSessionIds[tasks[t].userId] = tasks[t].command.handle

\* ------------------------------------------------- the core called directly
\* A front end that admits every user hands a turn to the core: a query goes
\* to executeQuery(text, userId), a /clear to SessionManager.clearSession and
\* ClaudeExecutor.clearSession, as the bot's handlers do after their
\* authorization check.
Submit(userId, text) ==
    /\ lastUpdate.n < MaxCoreTurns
    /\ LET runsQuery == ~StartsWithSlash(text) /\ text # <<>>
           runsClear == MatchesClear(text)
           free == {t \in Slots : tasks[t].pc = "none"}
           need == (IF runsQuery THEN 1 ELSE 0) + (IF runsClear THEN 1 ELSE 0)
       IN /\ Cardinality(free) >= need
          /\ LET qslot == IF runsQuery THEN Lowest(free) ELSE 0
                 cslot == IF runsClear THEN Lowest(free \ {qslot}) ELSE 0
                 started == [NoTask EXCEPT !.turn = lastUpdate.n + 1, !.userId = userId,
                                           !.query = text]
                 ts1 == IF runsClear THEN Detach(tasks, userId) ELSE tasks
             IN tasks' = [t \in Slots |->
                     IF t = qslot
                     THEN [started EXCEPT !.pc = "notify", !.handler = "message"]
                     ELSE IF t = cslot
                     THEN [started EXCEPT !.pc = "unlink", !.handler = "clear",
                                          !.command = HandleAtClear(userSessionIds, userId)]
                     ELSE ts1[t]]
          /\ sessions' = IF runsClear THEN SessionsDelete(sessions, userId) ELSE sessions
          /\ pushed' = IF runsClear THEN [pushed EXCEPT ![userId] = <<>>] ELSE pushed
    /\ lastUpdate' = [n |-> lastUpdate.n + 1, sender |-> userId, text |-> text]
    /\ now' = now + 1
    /\ UNCHANGED <<executor, maxMessagesPerSession, disk, userSessionIds, uuids,
                   writeFailures, lastCall>>

NextCore ==
    \/ \E userId \in UserIds, text \in InboundTexts : Submit(userId, text)
    \/ \E t \in Slots : ResumeBegin(t)
    \/ \E t \in Slots : ReplayBegin(t)
    \/ \E t \in Slots, ok \in BOOLEAN : ContextCreated(t, ok)
    \/ \E t \in Slots, o \in ExitOutcomes : ProcExit(t, o)
    \/ \E t \in Slots, partial \in PartialStdouts : ProcTimeout(t, partial)
    \/ \E t \in Slots : ProcError(t)
    \/ \E t \in Slots : LateClose(t)
    \/ \E t \in Slots, ok \in BOOLEAN : WriteDone(t, ok)
    \/ \E t \in Slots : Replied(t)
    \/ \E t \in Slots : UnlinkDone(t)

SpecCore == Init /\ [][NextCore]_vars

\* ==================================================================== C18
\* What the core holds for one user: the session, the record, the handle and
\* the handlers in flight.
Holding(ss, dk, ids, ts, u) ==
    [session |-> IF u \in DOMAIN ss THEN <<ss[u]>> ELSE <<>>,
     record |-> IF u \in DOMAIN dk THEN <<dk[u]>> ELSE <<>>,
     handle |-> IF u \in DOMAIN ids THEN <<ids[u]>> ELSE <<>>,
     inFlight |-> {t \in Slots : ts[t].userId = u /\ ts[t].pc # "none"}]

\* C18: operations on one user never affect another: every step taken for a
\* user A (a turn handed in for A, or a step of a handler of A, succeeding or
\* failing, interleaved with handlers of B) leaves the session, the record and
\* the handle of every other user B unchanged.
IsolationStep ==
    \A a, b \in UserIds :
        /\ a # b
        /\ \/ lastUpdate'.n # lastUpdate.n /\ lastUpdate'.sender = a
           \/ \E t \in Slots : tasks[t].userId = a /\ tasks'[t] # tasks[t]
        => LET before == Holding(sessions, disk, userSessionIds, tasks, b)
               after == Holding(sessions', disk', userSessionIds', tasks', b)
           IN /\ after.session = before.session
              /\ after.record = before.record
              /\ after.handle = before.handle

UsersIsolated == [][IsolationStep]_vars

\* Both users hold a session with messages, a record and a handle, after
\* turns of the two that overlapped.
UsersIsolatedWitness ==
    /\ executor = "resume"
    /\ \A u \in UserIds :
          /\ u \in DOMAIN sessions
          /\ sessions[u].messages # <<>>
          /\ u \in DOMAIN disk
          /\ u \in DOMAIN userSessionIds
    /\ \E t \in Slots : tasks[t].pc \in {"create", "save"}

\* A message of the history that only the turn tk can have appended: its
\* query as the user's message, its output as the assistant's, and not a
\* message the turn other appends as well.
AppendedOnlyBy(tk, other, m) ==
    LET mine(k) == \/ m.role = "user" /\ m.content = k.query
                   \/ m.role = "assistant" /\ m.content = k.output
    IN mine(tk) /\ ~mine(other)

\* Two queries of one user are the only updates received so far, and
\* executeQuery has returned success for both.
BothTurnsSucceeded(t1, t2) ==
    /\ lastUpdate.n = 2
    /\ tasks[t1].turn = 1 /\ tasks[t2].turn = 2
    /\ tasks[t1].userId = tasks[t2].userId
    /\ tasks[t1].pc = "reply" /\ tasks[t1].result.success
    /\ tasks[t2].pc = "reply" /\ tasks[t2].result.success
    /\ tasks[t1].userId \in DOMAIN sessions

\* C20: when two executeQuery calls for the same user both succeed, no message
\* of the turn that arrived later precedes, in the history, a message of the
\* turn that arrived first, whatever the order in which the subprocesses end.
ArrivalOrder ==
    \A t1, t2 \in Slots :
        BothTurnsSucceeded(t1, t2) =>
            LET h == sessions[tasks[t1].userId].messages
            IN \A i, j \in DOMAIN h :
                   i < j => ~ /\ AppendedOnlyBy(tasks[t2], tasks[t1], h[i])
                              /\ AppendedOnlyBy(tasks[t1], tasks[t2], h[j])

\* ----------------------------------------- SessionManager's read operations
\* The lastN arguments of the read operations: absent (-1), 0, and counts
\* below, at and above the largest history.
LastNsWide == {-1} \cup (0..(MaxMessagesCap + 1))

\* getConversationContext's default parameter: lastN = 10.
DefaultContextLastN == 10

\* getConversationContext as one call: getHistory(userId, lastN), then the
\* rendering.
CallGetConversationContext(userId, lastN) ==
    /\ now < MaxCalls
    /\ LET g == GetSessionResult(sessions, disk, userId)
           n == IF lastN = -1 THEN DefaultContextLastN ELSE lastN
       IN /\ sessions' = g.sessions
          /\ disk' = g.disk
          /\ lastCall' = Called("getConversationContext", userId,
                                ContextOf(HistoryOf(g.session, n)))
    /\ now' = now + 1
    /\ UNCHANGED <<executor, maxMessagesPerSession, userSessionIds, uuids, lastUpdate,
                   tasks, writeFailures, pushed>>

\* A mutant of TotalMessages: every session counts as one message.
TotalMessagesOnePerSession(ss) == Cardinality(DOMAIN ss)

\* getStats: the loop over sessions.values() adds up the message counts.
RECURSIVE TotalMessages(_)
TotalMessages(ss) ==
    IF DOMAIN ss = {} THEN 0
    ELSE LET u == CHOOSE k \in DOMAIN ss : TRUE
         IN Len(ss[u].messages) + TotalMessages(MapDelete(ss, u))

getStats(ss) ==
    [totalSessions |-> Cardinality(DOMAIN ss), totalMessages |-> TotalMessages(ss)]

\* getStats as one call; it is synchronous and touches nothing.
CallGetStats ==
    /\ now < MaxCalls
    /\ lastCall' = Called("getStats", "", getStats(sessions))
    /\ now' = now + 1
    /\ UNCHANGED <<executor, maxMessagesPerSession, sessions, disk, userSessionIds, uuids,
                   lastUpdate, tasks, writeFailures, pushed>>

NextReader ==
    \/ NextManager
    \/ \E userId \in UserIds, lastN \in LastNsWide : CallGetHistory(userId, lastN)
    \/ \E userId \in UserIds, lastN \in LastNsWide : CallGetConversationContext(userId, lastN)
    \/ CallGetStats

SpecReader == InitManager /\ [][NextReader]_vars

\* The messages stored for a user; none when the user has no session.
Stored(ss, userId) == IF userId \in DOMAIN ss THEN ss[userId].messages ELSE <<>>

\* ==================================================================== C21
GetHistoryStep ==
    \A userId \in UserIds, lastN \in LastNsWide :
        CallGetHistory(userId, lastN) =>
            LET stored == Stored(sessions, userId)
                got == lastCall'.returned
            IN /\ lastN >= 1 => got = MostRecent(stored, lastN)
               /\ lastN >= 1 => Len(got) = Min(lastN, Len(stored))
               /\ lastN = -1 => got = stored
               /\ stored = <<>> => got = <<>>

\* C21: getHistory(userId, lastN) with lastN >= 1 returns the last
\* min(lastN, n) of the n stored messages, oldest first; without lastN it
\* returns all n; for a user with no messages it returns the empty sequence.
GetHistoryReturnsSuffix == [][GetHistoryStep]_vars

\* getHistory has returned 2 of 3 stored messages.
GetHistoryReturnsSuffixWitness ==
    /\ lastCall.op = "getHistory"
    /\ lastCall.size = 3
    /\ Len(lastCall.returned) = 2

\* ==================================================================== C22
\* One message as the claim renders it.
ContextLine(m) ==
    (IF m.role = "user" THEN <<"User">> ELSE <<"Assistant">>) \o <<":", " ">> \o m.content

\* The lines of the messages, oldest first, one blank line between two.
RECURSIVE ContextLines(_)
ContextLines(msgs) ==
    IF msgs = <<>> THEN <<>>
    ELSE ContextLine(Head(msgs))
         \o (IF Len(msgs) > 1 THEN <<"\n", "\n">> ELSE <<>>)
         \o ContextLines(Tail(msgs))

\* The context the claim describes for the stored messages and lastN.
ClaimedContext(stored, lastN) ==
    IF stored = <<>> THEN <<>>
    ELSE <<"Previous conversation:", "\n">>
         \o ContextLines(MostRecent(stored, lastN))
         \o <<"\n", "\n", "Current query:">>

ContextStep ==
    \A userId \in UserIds, lastN \in LastNsWide :
        CallGetConversationContext(userId, lastN) =>
            lastCall'.returned =
                ClaimedContext(Stored(sessions, userId),
                               IF lastN = -1 THEN DefaultContextLastN ELSE lastN)

\* C22: getConversationContext(userId, lastN), lastN defaulting to 10, returns
\* the empty string when the user has no messages, and otherwise
\* 'Previous conversation:', a newline, the last min(lastN, n) messages oldest
\* first, each as 'User: <content>' or 'Assistant: <content>' with one blank
\* line between two, then a blank line and 'Current query:'.
ContextFormat == [][ContextStep]_vars

\* ==================================================================== C23
\* What getStats returned last is the count of the sessions in memory and the
\* number of messages they hold together.
StatsAtReturn ==
    lastCall.op = "getStats" =>
        /\ lastCall.returned.totalSessions = Cardinality(DOMAIN sessions)
        /\ lastCall.returned.totalMessages =
               Cardinality({<<u, i>> \in UserIds \X (1..MaxMessagesCap) :
                               u \in DOMAIN sessions /\ i <= Len(sessions[u].messages)})

StatsStep == CallGetStats => sessions' = sessions /\ disk' = disk

\* C23: in every reachable state getStats() returns totalSessions equal to
\* the number of in-memory sessions and totalMessages equal to the sum of
\* their message counts, and the call changes neither memory nor storage.
StatsCount == []StatsAtReturn /\ [][StatsStep]_vars

\* Scenario D: two users have appended one message each and one of them has
\* been cleared; getStats reports (1, 1).
StatsCountWitness ==
    /\ lastCall.op = "getStats"
    /\ lastCall.prevOp = "clearSession"
    /\ lastCall.returned = [totalSessions |-> 1, totalMessages |-> 1]
    /\ \E u \in UserIds :
          /\ lastCall.prevUserId = u
          /\ u \notin DOMAIN sessions
          /\ \A v \in UserIds \ {u} : v \in DOMAIN sessions /\ Len(pushed[v]) = 1

\* ==================================================================== C24
\* A clearSession call returns with neither the session nor the record of
\* the user; called right after a clearSession of the same user, or for a
\* user who has neither, it changes nothing.
ClearStep ==
    \A userId \in UserIds :
        CallClearSession(userId) =>
            /\ lastCall'.op = "clearSession"
            /\ userId \notin DOMAIN sessions'
            /\ userId \notin DOMAIN disk'
            /\ \/ lastCall.op = "clearSession" /\ lastCall.userId = userId
               \/ userId \notin DOMAIN sessions /\ userId \notin DOMAIN disk
               => sessions' = sessions /\ disk' = disk

\* C24: clearSession is idempotent: called twice in a row, or for a user with
\* no in-memory session and no durable record, it raises no error and leaves
\* the state as after a single clear: no session, no record for that user.
ClearIdempotent == [][ClearStep]_vars

\* A session with messages was cleared, and cleared again at once.
ClearIdempotentWitness ==
    /\ lastCall.op = "clearSession"
    /\ lastCall.prevOp = "clearSession"
    /\ lastCall.prevUserId = lastCall.userId
    /\ lastCall.prevSize > 0
    /\ lastCall.userId \notin DOMAIN sessions
    /\ lastCall.userId \notin DOMAIN disk

\* ==================================================================== C25
\* The child of the call has exited with code 0 and has written nothing.
ExitedSilently(tk) ==
    /\ tk.proc.closed /\ ~tk.proc.timedOut
    /\ tk.proc.code = 0
    /\ tk.proc.stdout = <<>> /\ tk.proc.stderr = <<>>

\* C25: a successful-but-empty response is never rendered as silence: when
\* the subprocess exits 0 having written nothing to stdout or stderr,
\* executeQuery returns success = true with the output
\* 'Command executed successfully (no output)', and no successful result has
\* an empty output.
SilenceIsRendered ==
    \A t \in Slots :
        tasks[t].pc = "reply" =>
            /\ ExitedSilently(tasks[t]) =>
                   /\ tasks[t].result.success
                   /\ tasks[t].result.output = NoOutputPlaceholder
            /\ tasks[t].result.success => tasks[t].result.output # <<>>

\* ------------------------------------------- the command line of a query
\* The longest query text and the characters it is made of: a letter, the
\* three characters escapeQuery escapes, and the backslash.
MaxTextLen == 3
Alphabet == {"a", DoubleQuote, Backtick, Dollar, "\\"}
Texts == UNION {[1..n -> Alphabet] : n \in 0..MaxTextLen}

\* The histories a query can meet: none, or one earlier message.
EarlierMessages ==
    {<<>>} \cup {<<[role |-> "user", content |-> <<c>>, timestamp |-> 0]>> : c \in Alphabet}

\* One query is about to be executed for the allowed user, in either build.
InitCommand ==
    /\ executor \in {"resume", "replay"}
    /\ maxMessagesPerSession = MaxMessagesCap
    /\ \E earlier \in EarlierMessages :
          LET session == [NewSession(AllowedUserId, 0) EXCEPT !.messages = earlier]
          IN /\ sessions = IF earlier = <<>> THEN <<>>
                           ELSE MapSet(<<>>, AllowedUserId, session)
             /\ disk = IF earlier = <<>> THEN <<>>
                       ELSE MapSet(<<>>, AllowedUserId, StringifySession(session))
             /\ pushed = [u \in UserIds |-> IF u = AllowedUserId THEN earlier ELSE <<>>]
    /\ userSessionIds = <<>>
    /\ uuids = 0
    /\ now = 1
    /\ \E text \in Texts : lastUpdate = [n |-> 1, sender |-> AllowedUserId, text |-> text]
    /\ tasks = [t \in Slots |-> NoTask]
    /\ writeFailures = 0
    /\ lastCall = NoCall

\* escapeQuery applied to the query.
CallEscapeQuery ==
    /\ lastCall.op = "none"
    /\ lastCall' = Called("escapeQuery", lastUpdate.sender, escapeQuery(lastUpdate.text))
    /\ UNCHANGED <<executor, maxMessagesPerSession, sessions, disk, userSessionIds, uuids,
                   now, lastUpdate, tasks, writeFailures, pushed>>

\* executeQuery up to the command line, for a user whose session is registered
\* or who has none and no messages.
BuildCommand ==
    /\ tasks[1].pc = "none"
    /\ LET u == lastUpdate.sender
           query == lastUpdate.text
           r == ResumePrefix(userSessionIds, uuids, u, query)
           command == IF executor = "resume" THEN r.command
                      ELSE ReplayCommand(
                               ContextOf(HistoryOf([messages |-> Stored(sessions, u)],
                                                   ContextLastN)), query)
       IN /\ tasks' = [tasks EXCEPT ![1] = [NoTask EXCEPT
                          !.pc = "exec", !.handler = "message", !.turn = 1,
                          !.userId = u, !.query = query, !.command = command]]
          /\ userSessionIds' = IF executor = "resume" THEN r.userSessionIds
                               ELSE userSessionIds
          /\ uuids' = IF executor = "resume" THEN r.uuids ELSE uuids
    /\ UNCHANGED <<executor, maxMessagesPerSession, sessions, disk, now, lastUpdate,
                   writeFailures, pushed, lastCall>>

NextCommand == CallEscapeQuery \/ BuildCommand

SpecCommand == InitCommand /\ [][NextCommand]_vars

\* ==================================================================== C26
EscapedCharacters == {DoubleQuote, Backtick, Dollar}

\* The text with one backslash put before each of the three characters.
RECURSIVE Backslashed(_)
Backslashed(text) ==
    IF text = <<>> THEN <<>>
    ELSE LET rest == Backslashed(SubSeq(text, 1, Len(text) - 1))
             c == text[Len(text)]
         IN IF c \in EscapedCharacters THEN rest \o <<"\\">> \o <<c>> ELSE Append(rest, c)

\* The last n entries of a sequence.
Ending(s, n) == SubSeq(s, Len(s) - n + 1, Len(s))

\* C26: for every query text escapeQuery returns the text with one backslash
\* inserted immediately before every double quote, backtick and dollar sign,
\* all other characters unchanged and in the same order; and the command
\* line built by executeQuery embeds the escaped query, never the raw one.
EscapedEverywhere ==
    /\ lastCall.op = "escapeQuery" =>
           lastCall.returned = Backslashed(lastUpdate.text)
    /\ \A t \in Slots :
           tasks[t].command.mode \in {"resume", "session-id", "print-json"} =>
               LET prompt == tasks[t].command.prompt
                   escaped == Backslashed(tasks[t].query)
               IN /\ Len(prompt) >= Len(escaped)
                  /\ Ending(prompt, Len(escaped)) = escaped
                  /\ \A i \in 1..Len(prompt) :
                         prompt[i] \in EscapedCharacters => i > 1 /\ prompt[i - 1] = "\\"

\* A query with two dollar signs and a double quote has been escaped, and
\* the command line holds it behind a replayed context.
EscapedEverywhereWitness ==
    /\ lastCall.op = "escapeQuery"
    /\ lastUpdate.text = <<Dollar, DoubleQuote, Dollar>>
    /\ lastCall.returned = <<"\\", Dollar, "\\", DoubleQuote, "\\", Dollar>>
    /\ tasks[1].command.mode = "print-json"
    /\ Len(tasks[1].command.prompt) > 6

\* ------------------------------------------------ the bot across a restart
\* The process is restarted at a quiet moment (no handler in flight): the new
\* ClaudeExecutor starts with an empty userSessionIds map, the new
\* SessionManager loads the records of the directory.  lastCall keeps the
\* number the restart takes among the updates.
Restart(listing) ==
    /\ lastUpdate.n < MaxTurns
    /\ \A t \in Slots : tasks[t].pc = "none"
    /\ sessions' = LoadSessions(disk, listing, <<>>)
    /\ userSessionIds' = <<>>
    /\ pushed' = [u \in UserIds |-> Stored(sessions', u)]
    /\ lastCall' = [NoCall EXCEPT !.op = "initialize", !.at = lastUpdate.n + 1]
    /\ lastUpdate' = [n |-> lastUpdate.n + 1, sender |-> "", text |-> <<>>]
    /\ now' = now + 1
    /\ UNCHANGED <<executor, maxMessagesPerSession, disk, uuids, tasks, writeFailures>>

NextReboot ==
    \/ Next
    \/ \E listing \in Listings(disk) : Restart(listing)

SpecReboot == Init /\ [][NextReboot]_vars

\* ==================================================================== C27
\* C27: after a process restart every user is Fresh, and the first
\* executeQuery of a user whose stored history is non-empty sends that
\* history to the assistant as replayed context: the command line starts
\* with the context preamble and no stored handle is resumed.
ReplayAfterRestart ==
    /\ lastCall.op = "initialize" /\ lastUpdate.n = lastCall.at => userSessionIds = <<>>
    /\ \A t \in Slots :
           /\ lastCall.op = "initialize"
           /\ tasks[t].turn = lastCall.at + 1
           /\ lastUpdate.n = tasks[t].turn
           /\ tasks[t].handler = "message"
           /\ tasks[t].pc = "exec"
           /\ Stored(sessions, tasks[t].userId) # <<>>
           => /\ tasks[t].command.mode # "resume"
              /\ Head(tasks[t].command.prompt) = "Previous conversation:"

\* ==================================================================== C28
\* The entries of a sequence, as a set.
Range(s) == {s[i] : i \in DOMAIN s}

\* The turn of task t2 arrived after the turn of task t, for the same user,
\* and the message m is one it has appended to the session.
AppendedByLaterTurn(t, t2, m) ==
    /\ tasks[t2].userId = tasks[t].userId
    /\ tasks[t2].turn > tasks[t].turn
    /\ \E e \in Range(tasks[t2].appended) :
          e.attached /\ e.role = m.role /\ e.content = m.content

\* The step in which the replay executor builds the command line of task t.
ReplayedContextStep(t) ==
    tasks[t].command.mode = "none" /\ tasks'[t].command.mode = "print-json" =>
        LET stored == Stored(sessions, tasks[t].userId)
            replayed == MostRecent(stored, ContextLastN)
            query == tasks[t].query
        IN /\ tasks'[t].command.prompt =
                  escapeQuery(IF stored = <<>> THEN query
                              ELSE ClaimedContext(stored, ContextLastN) \o <<"\n">> \o query)
           /\ \A m \in Range(replayed) :
                 /\ \A t2 \in Slots \ {t} : ~AppendedByLaterTurn(t, t2, m)
                 /\ "Previous conversation:" \notin Range(m.content)

\* C28: in the history-replay executor the text sent to the assistant for a
\* turn is the context built from the user's last 5 messages, a newline and
\* the query when the user's history is non-empty, and the query alone when
\* it is empty; the replayed context of turn k contains only messages of
\* turns before k, and never a previously replayed preamble.
ReplayedContext == [][\A t \in Slots : ReplayedContextStep(t)]_vars

\* ==================================================================== C29
\* C29: a failure result carries the partial standard output: when the
\* invocation has failed after the subprocess has written text to stdout (for
\* example it was killed on timeout), the output of the failure result that
\* executeQuery returns is that captured text, and its error describes the
\* failure.
FailureCarriesStdout ==
    \A t \in Slots :
        /\ tasks[t].pc = "reply"
        /\ tasks[t].proc.settled = "rejected"
        /\ tasks[t].proc.stdout # <<>>
        => /\ ~tasks[t].result.success
           /\ tasks[t].result.output = tasks[t].proc.stdout
           /\ tasks[t].result.error # ""

\* ------------------------------------------------ timers and storage served
\* The event loop serves every timer that is due and every storage operation
\* completes: the timeout callback of a running invocation fires, and the
\* writes that saveSession and getSession have issued resolve or reject.
\* Nothing is assumed about the subprocess.  The write that getSession issues
\* inside getConversationContext is served by ContextCreated, the only step
\* that leaves "createCtx" and one that is enabled whenever a task is there:
\* its weak fairness is written as the task not staying there for ever.
Served ==
    \A t \in Slots :
        /\ WF_vars(\E partial \in PartialStdouts : ProcTimeout(t, partial))
        /\ WF_vars(\E ok \in BOOLEAN : WriteDone(t, ok))
        /\ []<>(tasks[t].pc # "createCtx")

\* The executeQuery calls of one user: up to MaxCoreTurns queries, which may
\* overlap, and every way their subprocesses and writes can go.
NextQueries ==
    \/ Submit(AllowedUserId, QueryText)
    \/ \E t \in Slots : ResumeBegin(t)
    \/ \E t \in Slots : ReplayBegin(t)
    \/ \E t \in Slots, ok \in BOOLEAN : ContextCreated(t, ok)
    \/ \E t \in Slots, o \in ExitOutcomes : ProcExit(t, o)
    \/ \E t \in Slots, partial \in PartialStdouts : ProcTimeout(t, partial)
    \/ \E t \in Slots : ProcError(t)
    \/ \E t \in Slots : LateClose(t)
    \/ \E t \in Slots, ok \in BOOLEAN : WriteDone(t, ok)
    \/ \E t \in Slots : Replied(t)

SpecQueriesServed == Init /\ [][NextQueries]_vars /\ Served

\* ==================================================================== C30
\* executeQuery has been called for the task and has not returned.
InsideCall(t) == tasks[t].pc \in {"createCtx", "exec", "create", "save"}

\* C30: every executeQuery call eventually returns a result, even if the
\* subprocess never exits and never writes anything: the call completes once
\* the invocation timeout has expired, provided timers and storage operations
\* are eventually served.
EventuallyReturns ==
    \A t \in Slots : InsideCall(t) ~> (tasks[t].pc = "reply" /\ tasks[t].result.state = "returned")

\* A call has returned a failure after the timer fired on a subprocess that
\* had written nothing.
EventuallyReturnsWitness ==
    \E t \in Slots :
        /\ tasks[t].pc = "reply"
        /\ tasks[t].proc.timedOut
        /\ tasks[t].proc.stdout = <<>>
        /\ tasks[t].proc.stderr = <<>>
        /\ ~tasks[t].result.success
        /\ tasks[t].result.error # ""

\* ==================================================================== C31
ZeroStep ==
    \A userId \in UserIds :
        /\ CallGetHistory(userId, 0) => lastCall'.returned = <<>>
        /\ CallGetConversationContext(userId, 0) => lastCall'.returned = <<>>

\* C31: a specified lastN of 0 selects the most recent zero messages:
\* getHistory(userId, 0) returns an empty sequence and
\* getConversationContext(userId, 0) returns the empty string, for a session
\* with any number of stored messages.
ZeroSelectsNothing == [][ZeroStep]_vars

\* ==================================================================== C32
\* The calls of the user that are in flight with the handle stored for the
\* user: they have started since the handle was generated.
HoldingStoredHandle(u) ==
    {t \in Slots :
        /\ tasks[t].userId = u
        /\ tasks[t].handler = "message"
        /\ tasks[t].command.mode \in {"session-id", "resume"}
        /\ u \in DOMAIN userSessionIds
        /\ tasks[t].command.handle = userSessionIds[u]}

\* A call that starts while another call of the user is in flight with the
\* stored handle generates nothing and resumes that handle.
JoinStep ==
    \A t \in Slots :
        /\ executor = "resume"
        /\ tasks[t].pc = "notify"
        /\ tasks'[t].pc = "exec"
        /\ HoldingStoredHandle(tasks[t].userId) # {}
        => /\ tasks'[t].command.mode = "resume"
           /\ tasks'[t].command.handle = userSessionIds[tasks[t].userId]
           /\ uuids' = uuids
           /\ userSessionIds' = userSessionIds

\* A handle is generated only for a user who has none stored, and is stored
\* in the same step.
GenerateStep ==
    uuids' # uuids =>
        /\ uuids' = uuids + 1
        /\ \E t \in Slots :
              /\ tasks[t].pc = "notify"
              /\ tasks'[t].command = [mode |-> "session-id", handle |-> uuids',
                                      prompt |-> tasks'[t].command.prompt]
              /\ tasks[t].userId \notin DOMAIN userSessionIds
              /\ userSessionIds' = MapSet(userSessionIds, tasks[t].userId, uuids')

\* Every handle but the first was generated after a /clear that followed the
\* generation before it: of n updates at most (n + 1) / 2 generate a handle.
OneHandlePerClear == 2 * uuids <= lastUpdate.n + 1

\* C32: handle creation is race-free: even when several executeQuery calls of
\* the same Fresh user are in flight at once, at most one handle is generated
\* for the user between two clears, the lookup and the store of the handle
\* having no suspension point between them; every call that starts after the
\* first one resumes the first call's handle.
HandleCreationRaceFree == []OneHandlePerClear /\ [][JoinStep /\ GenerateStep]_vars

\* Two calls of the user are in flight at once: the first has generated the
\* only handle, the second resumes it.
HandleCreationRaceFreeWitness ==
    \E t1, t2 \in Slots :
        /\ tasks[t1].userId = tasks[t2].userId
        /\ tasks[t1].turn < tasks[t2].turn
        /\ tasks[t1].pc = "exec" /\ tasks[t2].pc = "exec"
        /\ tasks[t1].command.mode = "session-id"
        /\ tasks[t2].command.mode = "resume"
        /\ tasks[t2].command.handle = tasks[t1].command.handle
        /\ uuids = 1

\* ==================================================================== C33
\* Neither the memory nor the store holds a message for the user.
NothingKept(ss, dk, u) ==
    /\ Stored(ss, u) = <<>>
    /\ u \in DOMAIN dk /\ dk[u] # CorruptRecord => ParseSession(dk[u]).messages = <<>>

\* The /clear handler c ends after the executeQuery of the earlier turn t
\* has returned.
ClearEndsLast(c, t) ==
    /\ tasks[c].handler = "clear" /\ tasks[c].pc = "unlink" /\ tasks'[c].pc = "none"
    /\ tasks[t].handler = "message" /\ tasks[t].pc = "reply"
    /\ tasks[t].userId = tasks[c].userId
    /\ tasks[t].turn < tasks[c].turn
    /\ writeFailures = 0

ClearEndsLastStep ==
    \A c, t \in Slots :
        ClearEndsLast(c, t) => NothingKept(sessions', disk', tasks[c].userId)

\* The executeQuery of turn t has returned after the /clear that arrived
\* right after it has ended, and it had begun when that /clear ended: the
\* handle it generated has been removed, or the clear found it suspended in
\* getSession's write.
QueryEndsLast(t) ==
    /\ tasks[t].handler = "message" /\ tasks[t].pc = "reply"
    /\ lastUpdate.n = tasks[t].turn + 1
    /\ lastUpdate.sender = tasks[t].userId
    /\ lastUpdate.text = ClearText
    /\ \A c \in Slots : tasks[c].handler # "clear"
    /\ writeFailures = 0
    /\ \/ /\ executor = "resume"
          /\ tasks[t].command.mode = "session-id"
          /\ tasks[t].userId \notin DOMAIN userSessionIds
       \/ tasks[t].detached

QueryEndsLastKeepsNothing ==
    \A t \in Slots : QueryEndsLast(t) => NothingKept(sessions, disk, tasks[t].userId)

\* C33: a clear is not undone by a turn submitted before it: if /clear is
\* processed while an executeQuery (or an addMessage write) of the same user
\* is still in flight, then once both have completed the in-memory history
\* contains no message of that earlier turn, and the durable store contains
\* no record holding messages from before the clear.  The turns taken are
\* those on which no write has failed.
ClearNotUndone == []QueryEndsLastKeepsNothing /\ [][ClearEndsLastStep]_vars

\* ------------------------------------------------ one user's queries alone
\* The queries of one user with no /clear among them: their executeQuery
\* calls may overlap, and the storage layer completes the writes they issue
\* in any order.
SpecQueries == Init /\ [][NextQueries]_vars

\* ==================================================================== C34
\* The write of an addMessage's saveSession completes for task t, the call
\* returns, and no other write is outstanding: all writes have completed.
LastSaveCompletes(t) ==
    /\ tasks[t].pc = "save"
    /\ tasks'[t].pc = "reply"
    /\ tasks'[t].result.success
    /\ writeFailures' = 0
    /\ \A t2 \in Slots \ {t} : tasks[t2].pc \notin {"create", "createCtx", "save"}

LastSaveStep ==
    \A t \in Slots :
        LastSaveCompletes(t) =>
            LET u == tasks[t].userId
            IN /\ u \in DOMAIN sessions'
               /\ u \in DOMAIN disk'
               /\ ParseSession(disk'[u]) = sessions'[u]

\* C34: when appends for the same user overlap (a second addMessage issues
\* its write before the first one's write has completed), then after all
\* writes have completed the durable record equals the final in-memory
\* session, whatever order the storage layer completes the writes in.
OverlappingWritesConverge == [][LastSaveStep]_vars

\* ------------------------------------------------ one turn at a time
\* The bot of an installation with any bound on the history.
InitSequential ==
    /\ InitCommon
    /\ executor \in {"resume", "replay"}
    /\ maxMessagesPerSession \in 1..MaxMessagesCap

\* The user sends the next text when the handlers of the last one have ended.
DeliverInTurn(sender, text) ==
    /\ \A t \in Slots : tasks[t].pc = "none"
    /\ Deliver(sender, text)

NextSequential ==
    \/ \E sender \in UserIds, text \in InboundTexts : DeliverInTurn(sender, text)
    \/ \E t \in Slots : ResumeBegin(t)
    \/ \E t \in Slots : ReplayBegin(t)
    \/ \E t \in Slots, ok \in BOOLEAN : ContextCreated(t, ok)
    \/ \E t \in Slots, o \in ExitOutcomes : ProcExit(t, o)
    \/ \E t \in Slots, partial \in PartialStdouts : ProcTimeout(t, partial)
    \/ \E t \in Slots : ProcError(t)
    \/ \E t \in Slots : LateClose(t)
    \/ \E t \in Slots, ok \in BOOLEAN : WriteDone(t, ok)
    \/ \E t \in Slots : Replied(t)
    \/ \E t \in Slots : UnlinkDone(t)

SpecSequential == InitSequential /\ [][NextSequential]_vars

\* ==================================================================== C35
\* The roles alternate, the last message is the assistant's, and every
\* assistant message but a first one stands right behind the user message
\* pushed in the same turn (a turn's messages carry the clock of the turn).
Alternating(h) ==
    /\ \A i \in 1..(Len(h) - 1) : h[i].role # h[i + 1].role
    /\ h # <<>> => h[Len(h)].role = "assistant"
    /\ \A i \in 2..Len(h) :
          h[i].role = "assistant" =>
              /\ h[i - 1].role = "user"
              /\ h[i - 1].timestamp = h[i].timestamp

\* C35: when the turns of a user are processed one at a time and no storage
\* write fails, every history built by executeQuery strictly alternates user
\* and assistant roles and always ends with an assistant message; each
\* assistant message directly follows the user message of the same turn,
\* except that front-truncation may leave the oldest retained message as an
\* assistant message whose user message was evicted.
HistoryAlternates ==
    /\ writeFailures = 0
    /\ \A t \in Slots : ~InsideCall(t)
    => \A u \in DOMAIN sessions : Alternating(sessions[u].messages)

\* With a bound of 3 the second successful turn has evicted the first user
\* message: the history is assistant, user, assistant.
HistoryAlternatesWitness ==
    /\ maxMessagesPerSession = 3
    /\ writeFailures = 0
    /\ \E t \in Slots : tasks[t].pc = "reply" /\ tasks[t].result.success /\ tasks[t].turn = 2
    /\ AllowedUserId \in DOMAIN sessions
    /\ Len(pushed[AllowedUserId]) = 4
    /\ LET h == sessions[AllowedUserId].messages
       IN /\ Len(h) = 3
          /\ h[1].role = "assistant" /\ h[1].timestamp = 1
          /\ h[2].role = "user" /\ h[2].timestamp = 2
          /\ h[3].role = "assistant" /\ h[3].timestamp = 2

\* ------------------------------------------- restart with another bound
\* The process is restarted with a SessionManager constructed with a bound
\* of its own: new SessionManager(sessionDir, max), then initialize() over the
\* same directory.
CallConstruct(max, listing) ==
    /\ now < MaxCalls
    /\ maxMessagesPerSession' = max
    /\ sessions' = LoadSessions(disk, listing, <<>>)
    /\ pushed' = [u \in UserIds |-> Stored(sessions', u)]
    /\ lastCall' = Called("initialize", "",
                          [held |-> sessions, directory |-> disk, listing |-> listing])
    /\ now' = now + 1
    /\ UNCHANGED <<executor, disk, userSessionIds, uuids, lastUpdate, tasks, writeFailures>>

NextReconfigured ==
    \/ NextManager
    \/ \E max \in 1..MaxMessagesCap, listing \in Listings(disk) : CallConstruct(max, listing)

SpecReconfigured == InitRestart /\ [][NextReconfigured]_vars

\* ==================================================================== C36
\* C36: the history bound holds for loaded sessions too: every session held
\* in memory after initialize() has at most maxMessagesPerSession messages,
\* including sessions loaded from durable records that hold more messages
\* than the configured bound (records written by a run with a larger bound).
LoadedWithinBound ==
    lastCall.op = "initialize" =>
        \A u \in DOMAIN sessions : Len(sessions[u].messages) <= maxMessagesPerSession

\* ------------------------------------------- reads, and a query that fails
\* The ways a subprocess fails under child_process.exec: a non-zero exit.
FailingOutcomes == {o \in ExitOutcomes : o.code # 0}

\* executeQuery of the replay variant as one awaited call whose invocation
\* fails: getConversationContext(userId, 5) with its getSession, the
\* rejection, the catch block.  Nothing is appended.
CallFailedQuery(userId, o) ==
    /\ now < MaxCalls
    /\ LET g == GetSessionResult(sessions, disk, userId)
           p == ExecOnClose(OnData(SpawnProc, o.stdout, o.stderr), o.code)
       IN /\ sessions' = g.sessions
          /\ disk' = g.disk
          /\ lastCall' = Called("executeQuery", userId,
                                [result |-> FailureResult(p.errStdout, p.error)])
    /\ now' = now + 1
    /\ UNCHANGED <<executor, maxMessagesPerSession, userSessionIds, uuids, lastUpdate,
                   tasks, writeFailures, pushed>>

NextReads ==
    \/ NextReader
    \/ \E userId \in UserIds, o \in FailingOutcomes : CallFailedQuery(userId, o)

SpecReads == InitManager /\ [][NextReads]_vars

\* ==================================================================== C37
\* What a read for the user does to memory and storage: for a user with no
\* session an empty session is registered and its record written, and there
\* is one session more; for a user with a session nothing changes.
ReadEffect(userId) ==
    IF userId \notin DOMAIN sessions
    THEN /\ DOMAIN sessions' = DOMAIN sessions \cup {userId}
         /\ sessions'[userId].messages = <<>>
         /\ \A v \in DOMAIN sessions : sessions'[v] = sessions[v]
         /\ DOMAIN disk' = DOMAIN disk \cup {userId}
         /\ ParseSession(disk'[userId]) = sessions'[userId]
         /\ \A v \in DOMAIN disk \ {userId} : disk'[v] = disk[v]
         /\ getStats(sessions').totalSessions = getStats(sessions).totalSessions + 1
    ELSE /\ sessions' = sessions
         /\ disk' = disk

\* A step that is a read, or a failed query of the replay executor.
ReadStep ==
    /\ lastCall' # lastCall
    /\ lastCall'.op \in {"getHistory", "getConversationContext", "executeQuery"}
    => /\ ReadEffect(lastCall'.userId)
       /\ lastCall'.op = "executeQuery" => ~lastCall'.returned.result.success

\* C37: reading creates state: getHistory and getConversationContext called
\* for a user that has no session register a new empty session in memory and
\* write its durable record (getStats().totalSessions grows by one), so in
\* the history-replay executor even a failed first query leaves an empty
\* session behind; called for a user that already has a session they change
\* neither memory nor storage.
ReadingCreatesState == [][ReadStep]_vars

\* The first query of a user has failed in the replay executor: the user has
\* an empty session and a record, and no message.
ReadingCreatesStateWitness ==
    /\ lastCall.op = "executeQuery"
    /\ lastCall.prevOp = "none"
    /\ ~lastCall.returned.result.success
    /\ lastCall.userId \in DOMAIN sessions
    /\ sessions[lastCall.userId].messages = <<>>
    /\ lastCall.userId \in DOMAIN disk
    /\ getStats(sessions).totalSessions = 1

\* ------------------------------------------- the shell reading the command
\* spawn(command, {shell: true}) hands the command line to /bin/sh.  The
\* shell reading the characters that follow an opening double quote: a
\* backslash before a double quote, a backtick, a dollar sign or a backslash
\* is removed and the character is taken literally, any other backslash is
\* kept; a bare dollar sign or backtick starts an expansion; a bare double
\* quote closes the word.  The result is the word read so far, how the
\* reading ended, and what of the line is left.
RECURSIVE ShellWord(_)
ShellWord(line) ==
    IF line = <<>> THEN [word |-> <<>>, end |-> "unterminated", rest |-> <<>>]
    ELSE IF Head(line) = DoubleQuote
    THEN [word |-> <<>>, end |-> "closed", rest |-> Tail(line)]
    ELSE IF Head(line) \in {Dollar, Backtick}
    THEN [word |-> <<>>, end |-> "expansion", rest |-> Tail(line)]
    ELSE IF Head(line) = "\\" /\ Len(line) >= 2
            /\ line[2] \in {DoubleQuote, Backtick, Dollar, "\\"}
    THEN LET r == ShellWord(SubSeq(line, 3, Len(line)))
         IN [r EXCEPT !.word = <<line[2]>> \o @]
    ELSE LET r == ShellWord(Tail(line))
         IN [r EXCEPT !.word = <<Head(line)>> \o @]

\* ==================================================================== C38
\* C38: escaping round-trips through the shell: for every query text over an
\* alphabet that includes double quote, backtick, dollar sign and backslash,
\* reading the escaped text as the contents of a double-quoted shell word
\* yields exactly the original text, and no query (for example one that ends
\* in a backslash) can escape the closing quote of the -p argument.
EscapeRoundTrips ==
    lastCall.op = "escapeQuery" =>
        LET read == ShellWord(lastCall.returned \o <<DoubleQuote>>)
        IN /\ read.end = "closed"
           /\ read.rest = <<>>
           /\ read.word = lastUpdate.text

\* ------------------------------------------------ every kind of inbound text
\* A text that is not a command and holds the command word inside it.
EmbeddedClearText == <<"a", "/clear">>
InboundTextsWide == InboundTexts \cup {EmbeddedClearText}

\* The user sends a query, a command, or a text with the command word inside
\* it, each when the handlers of the last one have ended.
NextInbound ==
    \/ \E sender \in UserIds, text \in InboundTextsWide : DeliverInTurn(sender, text)
    \/ \E t \in Slots : ResumeBegin(t)
    \/ \E t \in Slots : ReplayBegin(t)
    \/ \E t \in Slots, ok \in BOOLEAN : ContextCreated(t, ok)
    \/ \E t \in Slots, o \in ExitOutcomes : ProcExit(t, o)
    \/ \E t \in Slots, partial \in PartialStdouts : ProcTimeout(t, partial)
    \/ \E t \in Slots : ProcError(t)
    \/ \E t \in Slots : LateClose(t)
    \/ \E t \in Slots, ok \in BOOLEAN : WriteDone(t, ok)
    \/ \E t \in Slots : Replied(t)
    \/ \E t \in Slots : UnlinkDone(t)

SpecInbound == Init /\ [][NextInbound]_vars

\* ==================================================================== C39
\* The handlers an update has started.
Started(handler) ==
    {t \in Slots : tasks[t].pc = "none" /\ tasks'[t].pc # "none"
                   /\ tasks'[t].handler = handler}

\* The step in which an update of the allowed user is delivered.
InboundStep ==
    lastUpdate'.n # lastUpdate.n /\ lastUpdate'.sender = AllowedUserId =>
        /\ Cardinality(Started("message") \cup Started("clear")) <= 1
        /\ ~StartsWithSlash(lastUpdate'.text) =>
              /\ Started("clear") = {}
              /\ sessions' = sessions

\* No /clear handler is running for a text that does not start with '/': no
\* such text removes the record or the handle.
NoClearForQuery ==
    \A t \in Slots : tasks[t].handler = "clear" => StartsWithSlash(tasks[t].query)

\* C39: each inbound text from the authorized user triggers at most one
\* state-changing handler: it is either handled as a command or forwarded to
\* executeQuery, never both; in particular a text that does not start with
\* '/' (even one that contains '/clear' somewhere inside it) is forwarded as
\* a query and never clears the session or the handle.
OneHandlerPerText == []NoClearForQuery /\ [][InboundStep]_vars

=============================================================================
